---- MODULE Spec2Model ----
(***************************************************************************)
(* Model of the jianpu-ly translation engine (src/jianpu2ly.py): the       *)
(* NoteheadMarkup timing/layout state machine and the getLY word           *)
(* dispatcher, processing one part of one score in one render pass.        *)
(*                                                                         *)
(* Python strings that the code takes apart character by character         *)
(* (octave marks, accidentals, figures) are sequences of one-character     *)
(* strings.  fractions.Fraction values are pairs <<numerator,denominator>> *)
(* in lowest terms with a positive denominator.                            *)
(***************************************************************************)
EXTENDS Integers, Sequences, FiniteSets, TLC

(***************************************************************************)
(* Exact rational arithmetic (fractions.Fraction)                          *)
(***************************************************************************)
Abs(x) == IF x < 0 THEN -x ELSE x

RECURSIVE GCD(_, _)
GCD(a, b) == IF b = 0 THEN a ELSE GCD(b, a % b)

\* Fraction(n, d): lowest terms, sign carried by the numerator
F(n, d) ==
    LET s == IF d < 0 THEN -1 ELSE 1
        g == GCD(Abs(n), Abs(d))
    IN  <<(s * n) \div g, (s * d) \div g>>

FInt(n) == <<n, 1>>
FAdd(x, y) == F(x[1] * y[2] + y[1] * x[2], x[2] * y[2])
FSub(x, y) == F(x[1] * y[2] - y[1] * x[2], x[2] * y[2])
FMul(x, y) == F(x[1] * y[1], x[2] * y[2])
FDiv(x, y) == F(x[1] * y[2], x[2] * y[1])
FLt(x, y) == x[1] * y[2] < y[1] * x[2]
FLe(x, y) == x[1] * y[2] <= y[1] * x[2]
FFloor(x) == x[1] \div x[2]
\* Python's x % m for Fraction x and positive integer m
FMod(x, m) == FSub(x, FInt(m * FFloor(FDiv(x, FInt(m)))))
FZero == FInt(0)
FIsZero(x) == x[1] = 0

(***************************************************************************)
(* Small string helpers                                                    *)
(***************************************************************************)
RECURSIVE Concat(_)
\* "".join(list of strings)
Concat(ss) == IF ss = <<>> THEN <<>> ELSE Head(ss) \o Concat(Tail(ss))

Contains(s, c) == \E i \in 1..Len(s) : s[i] = c
DropLast(s) == SubSeq(s, 1, Len(s) - 1)

RECURSIVE ReplaceChars(_, _, _)
\* str.replace for one-character patterns
ReplaceChars(s, from, to) ==
    IF s = <<>> THEN <<>>
    ELSE <<IF Head(s) = from THEN to ELSE Head(s)>> \o ReplaceChars(Tail(s), from, to)

RECURSIVE addOctaves(_, _)
addOctaves(octave1, octave2) ==
    LET o2 == ReplaceChars(ReplaceChars(octave2, ">", "'"), "<", ",")
    IN  IF octave1 = <<>> THEN o2
        ELSE IF Head(octave1) \in {"'", ">"}
             THEN addOctaves(Tail(octave1),
                             IF Contains(o2, ",") THEN DropLast(o2) ELSE Append(o2, "'"))
             ELSE addOctaves(Tail(octave1),
                             IF Contains(o2, "'") THEN DropLast(o2) ELSE Append(o2, ","))

(***************************************************************************)
(* Module-level options of the program                                     *)
(***************************************************************************)
dashes_as_ties == TRUE
use_rest_hack == TRUE

\* placeholders[f] = "r": the figures that are engraved as a rest
IsRestPlaceholder(f) == f \in {"0", "-"}

IsPitch(c) == c \in {"1", "2", "3", "4", "5", "6", "7"}
FigIndex(c) == CASE c = "1" -> 1 [] c = "2" -> 2 [] c = "3" -> 3 [] c = "4" -> 4
                 [] c = "5" -> 5 [] c = "6" -> 6 [] c = "7" -> 7

ValidAccidentals == {<<>>, <<"#">>, <<"b">>}
ValidOctaves == {<<",", ",">>, <<",">>, <<>>, <<"'">>, <<"'", "'">>}

VARIABLES
    \* render pass and per-score options (globals of the module)
    midi,               \* global midi: the audio-rendering pass
    western,            \* global western: the auxiliary-staff pass
    has_lyrics,         \* the score has a lyric line
    withStaff,          \* NoteheadMarkup.withStaff
    sloppy_bars,        \* environment variable j2ly_sloppy_bars is set
    not_angka,          \* global not_angka
    \* NoteheadMarkup fields
    barLength, beatLength, barPos, startBarPos,
    inBeamGroup,        \* 0, 1 or "restHack" (modelled as 0, 1, 2)
    lastNBeams, keepLength,
    last_figures, last_octaves, last_accidentals,
    base_octave, current_accidentals, barNo, tuplet, last_was_rest,
    defines_done,
    \* locals of getLY
    out, lastPtr, repeatStack, escaping, inTranspose, need_final_barline,
    afternext,          \* the grace markup waiting for the next note; <<>> is None
    defined_jianpuGrace, defined_JGR,
    \* position of the run and its outcome
    pc,                 \* "words" while the part is read, "done" after the final checks, "failed" after a fatal error
    err,                \* "none" or the fatal error / exception raised
    scen,               \* which family of inputs the part is drawn from
    hist,               \* what each handler run so far was given and returned
    \* process_input: the parts of a score
    headers,            \* the header map handed from getLY to getLY
    partNo,             \* the part being read, from 1
    nParts,             \* len(parts)
    scoreNo,            \* global scoreNo: the score being read, from 1
    uniqCount,          \* global uniqCount: the names unique_name has handed out
    ret_defs,           \* process_input: the markup-command definitions in the staves appended to ret
    \* the text passes before and after the dispatcher
    text,               \* the argument of a text pass
    rewritten           \* its result, Pending before the pass has run

noteheadVars == <<barLength, beatLength, barPos, startBarPos, inBeamGroup, lastNBeams,
                  keepLength, last_figures, last_octaves, last_accidentals, base_octave,
                  current_accidentals, barNo, tuplet, last_was_rest, defines_done>>
processVars == <<headers, partNo, nParts, scoreNo, uniqCount, ret_defs>>
textVars == <<text, rewritten>>
\* what no word handler of getLY writes: the options of the pass, the state of
\* process_input and the texts of the passes around the dispatcher
optionVars == <<midi, western, has_lyrics, withStaff, sloppy_bars, processVars, textVars>>
graceVars == <<afternext, defined_jianpuGrace, defined_JGR>>
getLYVars == <<out, lastPtr, repeatStack, escaping, inTranspose, need_final_barline,
               graceVars>>
vars == <<optionVars, not_angka, noteheadVars, getLYVars, pc, err, scen, hist>>

\* getLY's parameter midi: the auxiliary-staff pass calls getLY(part), whose default is True
getLY_midi == midi \/ western
notation == ~midi /\ ~western

\* inBeamGroup is 0, 1 or the string "restHack"
restHack == 2
\* nBeams = None: the word gives no length letter
None == -1

(***************************************************************************)
(* Words of the input, as parseNote and the dispatcher's patterns take     *)
(* them apart                                                              *)
(***************************************************************************)
W(t) == [t |-> t, figs |-> <<>>, accs |-> <<>>, octs |-> <<>>, nb |-> None, dots |-> 0,
         chg |-> <<>>, n |-> 0, d |-> 0, a |-> 0, dt |-> 0, tremolo |-> FALSE]
\* a one-figure note word: accidental, figure, octave marks, length letter, dots
Note(acc, f, oct, nb, dots) ==
    [W("note") EXCEPT !.figs = <<f>>, !.accs = <<acc>>, !.octs = <<oct>>, !.nb = nb,
                      !.dots = dots]
\* a chord word of two figures
Chord(acc1, f1, oct1, acc2, f2, oct2, nb) ==
    [W("note") EXCEPT !.figs = <<f1, f2>>, !.accs = <<acc1, acc2>>,
                      !.octs = <<oct1, oct2>>, !.nb = nb]
\* num/denom or num/denom,anac or num/denom,anac.
TimeSig(num, denom, anac, dotted) ==
    [W("time") EXCEPT !.n = num, !.d = denom, !.a = anac, !.dt = dotted]
\* R{ (n = 0) or Rn{
RepeatWord(n) == [W("R{") EXCEPT !.n = n]
TupletWord(fitIn) == [W("N[") EXCEPT !.n = fitIn]
OctaveWord(chg) == [W("note") EXCEPT !.chg = chg]
\* parseNote: the word w with /// in it
Tremolo(w) == [w EXCEPT !.tremolo = TRUE]

(***************************************************************************)
(* NoteheadMarkup: time signature and anacrusis                            *)
(***************************************************************************)
\* setTime: int(64 * num / denom)
BarLengthOf(num, denom) == (64 * num) \div denom

BeatLengthOf(num, denom) == IF denom > 4 /\ num % 3 = 0 THEN 24 ELSE 16

\* a faulty variant: the dot of the anacrusis is ignored
AnacPosUndotted(len, denom, dotted) == FSub(FInt(len), F(64, denom))

\* setAnac: F(barLength) - F(64)/denom, less F(64)/denom/2 when dotted
AnacPos(len, denom, dotted) ==
    LET p == FSub(FInt(len), F(64, denom))
    IN  IF dotted = 1 THEN FSub(p, F(64, denom * 2)) ELSE p

(***************************************************************************)
(* NoteheadMarkup._validate_figures                                        *)
(***************************************************************************)
\* a faulty variant: a dash in a chord passes
validate_figuresDashPasses(figures, accidentals) ==
    IF Len(figures) > 1 /\ Contains(figures, "0") THEN "RestInChord"
    ELSE IF \E i \in 1..Len(accidentals) : accidentals[i] \notin ValidAccidentals
         THEN "BadAccidental"
    ELSE "none"

validate_figures(figures, accidentals) ==
    IF Len(figures) > 1 /\ Contains(figures, "0") THEN "RestInChord"
    ELSE IF Len(figures) > 1 /\ Contains(figures, "-") THEN "DashInChord"
    ELSE IF \E i \in 1..Len(accidentals) : accidentals[i] \notin ValidAccidentals
         THEN "BadAccidental"
    ELSE "none"

(***************************************************************************)
(* NoteheadMarkup._process_figures                                         *)
(***************************************************************************)
\* get_placeholder_chord: "r" a rest, "c" one pitch (or the override), "<" a chord
get_placeholder_chord(figures) ==
    IF Len(figures) = 1 THEN (IF IsRestPlaceholder(figures[1]) THEN "r" ELSE "c")
    ELSE IF notation THEN "c"
    ELSE "<"

InvisTieLast(figures) ==
    /\ dashes_as_ties
    /\ last_figures # <<>>
    /\ figures[1] = "-"
    /\ ~last_was_rest

\* base: the base octave in force (after any change the word itself carries)
process_figures(figures, accidentals, octaves, base) ==
    LET invis == InvisTieLast(figures)
        resolved == [i \in 1..Len(octaves) |-> addOctaves(octaves[i], base)]
    IN  IF invis
        THEN [err |-> "none", invisTieLast |-> TRUE, figures |-> last_figures,
              octaves |-> last_octaves, accidentals |-> last_accidentals,
              placeholder_chord |-> get_placeholder_chord(last_figures),
              last_figures |-> last_figures, last_octaves |-> last_octaves,
              last_accidentals |-> last_accidentals, last_was_rest |-> FALSE]
        ELSE [err |-> IF not_angka THEN "KeyError"
                      ELSE IF \E i \in 1..Len(resolved) : resolved[i] \notin ValidOctaves
                           THEN "BadOctave"
                      ELSE IF figures[1] = "-" THEN "AssertionError"
                      ELSE "none",
              invisTieLast |-> FALSE, figures |-> figures, octaves |-> resolved,
              accidentals |-> accidentals,
              placeholder_chord |-> get_placeholder_chord(figures),
              last_figures |-> figures, last_octaves |-> resolved,
              last_accidentals |-> accidentals,
              last_was_rest |-> (figures = <<"0">>
                                   \/ (figures = <<"-">> /\ last_was_rest))]

(***************************************************************************)
(* NoteheadMarkup.toMarkup                                                 *)
(***************************************************************************)
\* nBeams == None: unspecified
EffectiveBeams(nBeams) ==
    IF nBeams = None THEN (IF keepLength = 1 THEN lastNBeams ELSE 0) ELSE nBeams

RECURSIVE Halve(_, _)
Halve(x, k) == IF k = 0 THEN x ELSE Halve(FDiv(x, FInt(2)), k - 1)

RECURSIVE Dotted(_, _, _)
\* for _ in dots: toAdd0 /= 2; toAdd += toAdd0
Dotted(toAdd, toAdd0, dots) ==
    IF dots = 0 THEN toAdd
    ELSE Dotted(FAdd(toAdd, FDiv(toAdd0, FInt(2))), FDiv(toAdd0, FInt(2)), dots - 1)

\* toAdd_preTuplet: a crotchet is 16, halved per beam, extended by the dots
PreTupletLength(nBeams, dots) == Dotted(Halve(FInt(16), nBeams), Halve(FInt(16), nBeams), dots)

\* a faulty variant: the tuplet ratio is applied upside down
ScaleByTupletInverted(toAdd, tup) ==
    IF tup[1] # tup[2] THEN FDiv(FMul(toAdd, FInt(tup[2])), FInt(tup[1])) ELSE toAdd

ScaleByTuplet(toAdd, tup) ==
    IF tup[1] # tup[2] THEN FDiv(FMul(toAdd, FInt(tup[1])), FInt(tup[2])) ELSE toAdd

NoteLength(nBeams, dots, tup) == ScaleByTuplet(PreTupletLength(nBeams, dots), tup)

\* self.current_accidentals = {}
EmptyDict == [k \in {} |-> <<>>]

\* the entry of current_accidentals after "if octave not in self.current_accidentals"
WithOctave(ca, octave) ==
    IF octave \in DOMAIN ca THEN ca ELSE ca @@ (octave :> [i \in 1..7 |-> <<>>])

\* need_space_for_accidental: some figure's remembered accidental differs
NeedSpace(figures, accidental, remembered) ==
    \E i \in 1..Len(figures) :
        IsPitch(figures[i]) /\ accidental # remembered[FigIndex(figures[i])]

Remember(figures, accidental, remembered) ==
    [j \in 1..7 |->
        IF \E i \in 1..Len(figures) : IsPitch(figures[i]) /\ FigIndex(figures[i]) = j
        THEN accidental ELSE remembered[j]]

\* a faulty variant: inside a beam group the beams of the last note are taken,
\* also when the note itself has fewer
LeftBeamsOfLast(figures, accidental, remembered, nBeams) ==
    IF figures = <<"-">>
       \/ ((\A i \in 1..Len(figures) :
               IsPitch(figures[i]) /\ accidental # remembered[FigIndex(figures[i])])
           /\ nBeams > lastNBeams)
    THEN nBeams
    ELSE IF inBeamGroup # 0 THEN lastNBeams
    ELSE 0

LeftBeams(figures, accidental, remembered, nBeams) ==
    IF figures = <<"-">>
       \/ ((\A i \in 1..Len(figures) :
               IsPitch(figures[i]) /\ accidental # remembered[FigIndex(figures[i])])
           /\ nBeams > lastNBeams)
    THEN nBeams
    ELSE IF inBeamGroup # 0
         THEN (IF nBeams < lastNBeams THEN nBeams ELSE lastNBeams)
    ELSE 0

\* a faulty variant of the bar check: an overflow of up to one crotchet passes
CrossesBarlineLax(pos, len) == FLt(FInt(len + 16), pos)
\* if self.barPos > self.barLength: errExit
CrossesBarline(pos, len) == FLt(FInt(len), pos)
\* a faulty variant: the bar also counts as complete at its middle
CompletesBarAtHalf(pos, len) == pos = FInt(len) \/ FAdd(pos, pos) = FInt(len)
\* if self.barPos == self.barLength: the bar is complete
CompletesBar(pos, len) == pos = FInt(len)
AtBeat(pos, beat) == FIsZero(FMod(pos, beat))

\* a faulty variant: the accidentals are remembered across the barline
MemoryKept(completed, ca) == ca
\* on a completed bar: self.current_accidentals = {}
MemoryAfter(completed, ca) == IF completed THEN EmptyDict ELSE ca

Opt(cond, tok) == IF cond THEN <<tok>> ELSE <<>>

\* lines 1007-1028 and 1084-1088: validation, the figures, the joined octave and
\* accidental strings, the beam count
TM_Figures(figures0, nBeams0, dots, octaves0, accidentals0, tremolo, base) ==
    LET pf == process_figures(figures0, accidentals0, octaves0, base)
    IN  [v |-> validate_figures(figures0, accidentals0),
         tremolo |-> tremolo,
         pfErr |-> pf.err,
         invisTieLast |-> pf.invisTieLast,
         \* the string figures: "-" and the last note's figures for a continuation
         figures |-> (IF pf.invisTieLast THEN <<"-">> ELSE <<>>) \o pf.figures,
         octave |-> Concat(pf.octaves),
         accidental |-> Concat(pf.accidentals),
         pf_placeholder |-> pf.placeholder_chord,
         nBeams |-> EffectiveBeams(nBeams0),
         dots |-> dots,
         last_figures |-> pf.last_figures, last_octaves |-> pf.last_octaves,
         last_accidentals |-> pf.last_accidentals, last_was_rest |-> pf.last_was_rest]

\* lines 1030-1033, 1077-1083, 1089-1127, 1138-1164: definitions, left beams, the
\* length, the accidental memory, the rest hack
TM_Beams(a) ==
    LET ca1 == WithOctave(current_accidentals, a.octave)
        hack == notation /\ a.pf_placeholder = "r" /\ use_rest_hack /\ a.nBeams # 0
    IN  a @@
        [newDefine |-> a.figures \notin defines_done /\ notation,
         barPrefix |-> barPos = FZero /\ barNo > 1,
         leftBeams |-> LeftBeams(a.figures, a.accidental, ca1[a.octave], a.nBeams),
         closePrev |-> a.nBeams = 0 /\ inBeamGroup # 0,
         toAdd_preTuplet |-> PreTupletLength(a.nBeams, a.dots),
         toAdd |-> NoteLength(a.nBeams, a.dots, tuplet),
         need_space |-> NeedSpace(a.figures, a.accidental, ca1[a.octave]),
         ca2 |-> [ca1 EXCEPT ![a.octave] = Remember(a.figures, a.accidental, @)],
         inRestHack |-> hack /\ has_lyrics /\ ~withStaff,
         placeholder_chord |-> IF hack THEN "c" ELSE a.pf_placeholder]

\* a faulty variant: a note with more beams than the one before opens a group too
OpensBeamOnMoreBeams(nBeams, ibg, inRestHack) ==
    /\ nBeams # 0
    /\ (nBeams > lastNBeams \/ ibg = 0 \/ ibg = restHack \/ inRestHack)
    /\ notation

\* lines 1188-1196: the note opens a beam group
OpensBeam(nBeams, ibg, inRestHack) ==
    nBeams # 0 /\ (ibg = 0 \/ ibg = restHack \/ inRestHack) /\ notation

\* lines 1111-1115, 1163-1179, 1188-1197: closing the previous beam group, the
\* note itself, opening a beam group, advancing the bar position
TM_Advance(b) ==
    LET ibg1 == IF b.closePrev THEN 0 ELSE inBeamGroup
        open == OpensBeam(b.nBeams, ibg1, b.inRestHack)
    IN  b @@
        [aftrlast0 |-> Opt((b.closePrev /\ inBeamGroup # restHack)
                           \/ (b.inRestHack /\ ibg1 # 0 /\ ibg1 # restHack), "]"),
         keyErr1 |-> /\ b.placeholder_chord # "<"
                     /\ \/ b.accidental \notin ValidAccidentals
                        \/ b.placeholder_chord # "r" /\ b.octave \notin ValidOctaves,
         open |-> open,
         ibg2 |-> IF open THEN 1 ELSE ibg1,
         pos |-> FAdd(barPos, b.toAdd)]

\* lines 1199-1212, 1227-1258: the bar check, the beat boundary, the bar completion,
\* the octave dots
TM_Close(c) ==
    LET atBeat == AtBeat(c.pos, beatLength) /\ c.ibg2 # 0
        hackClose == ~atBeat /\ c.inRestHack /\ c.ibg2 # 0
    IN  c @@
        [closeBeam |-> atBeat \/ hackClose,
         ibg3 |-> IF atBeat THEN 0 ELSE IF hackClose THEN restHack ELSE c.ibg2,
         completed |-> CompletesBar(c.pos, barLength),
         err |-> IF c.v # "none" THEN c.v
                 ELSE IF c.pfErr # "none" THEN c.pfErr
                 ELSE IF c.leftBeams # 0 /\ c.nBeams = 0 THEN "AssertionError"
                 ELSE IF c.keyErr1 THEN "KeyError"
                 ELSE IF CrossesBarline(c.pos, barLength) THEN "BarcheckFail"
                 ELSE IF notation /\ ~c.invisTieLast /\ c.octave \notin ValidOctaves
                      THEN "KeyError"
                 ELSE "none"]

RECURSIVE DigitStr(_)
\* str(n)
DigitStr(n) ==
    LET digit == <<"0", "1", "2", "3", "4", "5", "6", "7", "8", "9">>[(n % 10) + 1]
    IN  IF n < 10 THEN digit ELSE DigitStr(n \div 10) \o digit

\* _apply_tremolo_to_note: the fragment with the tremolo added. In the audio and
\* auxiliary-staff passes a chord of two notes becomes a \repeat tremolo of
\* int(toAdd_preTuplet / 4) alternations and any other note gets :32; in the
\* notation pass the hatch markup of _get_tremolo_symbol is added
apply_tremolo_to_note(ret, placeholder_chord, is_midi_or_western, toAdd_preTuplet) ==
    IF is_midi_or_western
    THEN IF placeholder_chord = "<"
         THEN <<"\\repeat tremolo", DigitStr(FFloor(FDiv(toAdd_preTuplet, FInt(4))))>>
         ELSE ret \o <<":32">>
    ELSE ret \o <<"\\markup \\postscript">>

\* the returned tuple (b4last, aftrlast, ret, need_space_for_accidental, nBeams,
\* octave) and the fields of self afterwards. Lines 1182-1186 call
\* _apply_tremolo_to_note without assigning its result (tremolo_result): ret is
\* what it was before the call
TM_Result(d) ==
    d @@
    [tremolo_result |->
         IF d.tremolo
         THEN apply_tremolo_to_note(<<d.placeholder_chord>>, d.placeholder_chord,
                                    midi \/ western, d.toAdd_preTuplet)
         ELSE <<>>,
     b4last |-> Opt(d.invisTieLast /\ notation, "\\once \\override Tie"),
     aftrlast |-> d.aftrlast0 \o Opt(d.invisTieLast, "~"),
     ret |-> Opt(d.inRestHack, "\\new Voice {") \o Opt(d.newDefine, "#(define")
             \o Opt(d.barPrefix, "| %{ bar %}")
             \o Opt(d.nBeams # 0 /\ notation, "\\set stemBeamCount")
             \o Opt(notation, "\\applyOutput")
             \o <<d.placeholder_chord>> \o Opt(d.open, "[") \o Opt(d.closeBeam, "]")
             \o Opt(notation /\ ~d.invisTieLast /\ d.octave # <<>>, "octave dots")
             \o Opt(d.inRestHack, " } "),
     need_space_for_accidental |-> d.need_space,
     barPos |-> IF d.completed THEN FZero ELSE d.pos,
     barNo |-> IF d.completed THEN barNo + 1 ELSE barNo,
     current_accidentals |-> MemoryAfter(d.completed, d.ca2),
     inBeamGroup |-> d.ibg3,
     lastNBeams |-> d.nBeams,
     defines_done |-> IF d.newDefine THEN defines_done \cup {d.figures}
                      ELSE defines_done]

toMarkup(figures0, nBeams0, dots, octaves0, accidentals0, tremolo, base) ==
    TM_Result(TM_Close(TM_Advance(TM_Beams(
        TM_Figures(figures0, nBeams0, dots, octaves0, accidentals0, tremolo, base)))))

(***************************************************************************)
(* getLY: tuplet and repeat brackets                                       *)
(***************************************************************************)
RECURSIVE PowerOfTwoFrom(_, _)
\* i = 2; while i < fitIn: i *= 2
PowerOfTwoFrom(i, fitIn) == IF i < fitIn THEN PowerOfTwoFrom(i * 2, fitIn) ELSE i

\* a faulty variant: the power of two is not halved
TupletNumAbove(fitIn) ==
    LET i == PowerOfTwoFrom(2, fitIn)
    IN  IF i = fitIn THEN (fitIn * 3) \div 2 ELSE i

TupletNum(fitIn) ==
    LET i == PowerOfTwoFrom(2, fitIn)
    IN  IF i = fitIn THEN (fitIn * 3) \div 2 ELSE i \div 2

\* The frame pushed for R{ / Rn{.  The dispatcher tests word[0] == "R" and
\* word[-1] == "{" before the pattern R[1-9][0-9]*{ of the percent repeat, so
\* every Rn{ takes the volta branch and pushes (1, 0, 0).
RepeatFrame(n, pos) == <<1, FZero, 0>>

\* a faulty variant: the alternate group does not record where it was opened
AlternateFrameAtZero(pos) == <<2, FZero, 0>>

AlternateFrame(pos) == <<2, pos, 0>>

RECURSIVE Resync(_, _, _)
\* while newBarPos < oldBarPos: newBarPos += barLength
Resync(newBarPos, oldBarPos, len) ==
    IF FLt(newBarPos, oldBarPos) THEN Resync(FAdd(newBarPos, FInt(len)), oldBarPos, len)
    ELSE newBarPos

\* the bar position after the closing brace of a frame
CloseBarPos(pos, frame, len) ==
    FMod(FAdd(pos, FMul(FSub(Resync(pos, frame[2], len), frame[2]), FInt(frame[3]))), len)

\* word == "|" and repeatStack and repeatStack[-1][0] == 2
IsAlternateSeparator(stack) == stack # <<>> /\ stack[Len(stack)][1] = 2

(***************************************************************************)
(* getLY: the checks at the end of the part, and NoteheadMarkup.endScore   *)
(***************************************************************************)
\* a faulty variant: the part must end on a barline, whatever the anacrusis
endScoreOnBarline(pos, start, sloppy) ==
    IF FIsZero(pos) \/ sloppy THEN "none" ELSE "IncompleteBar"

endScore(pos, start, sloppy) ==
    IF pos = start THEN "none"
    ELSE IF sloppy THEN "none"
    ELSE IF ~FIsZero(start) /\ FIsZero(pos) THEN "AnacrusisMakeup"
    ELSE "IncompleteBar"

\* a faulty variant: the repeat stack is not looked at
FinalChecksNoStack(pos, start, no, stack, esc, sloppy) ==
    IF FIsZero(pos) /\ no = 1 THEN "NoJianpu"
    ELSE IF esc = 1 THEN "UnterminatedLP"
    ELSE endScore(pos, start, sloppy)

FinalChecks(pos, start, no, stack, esc, sloppy) ==
    IF FIsZero(pos) /\ no = 1 THEN "NoJianpu"
    ELSE IF stack # <<>> THEN "UnterminatedRepeat"
    ELSE IF esc = 1 THEN "UnterminatedLP"
    ELSE endScore(pos, start, sloppy)

(***************************************************************************)
(* The inputs: each behaviour reads one part, word by word, drawn from one *)
(* of a few families of parts                                              *)
(***************************************************************************)
MaxWords == 4

NoAcc == <<>>
Sharp == <<"#">>
Flat == <<"b">>
Mid == <<>>
Up == <<"'">>

N1 == Note(NoAcc, "1", Mid, None, 0)          \* 1
N1dot == Note(NoAcc, "1", Mid, None, 1)       \* 1.
Nq1 == Note(NoAcc, "1", Mid, 1, 0)            \* q1
Ns1dot == Note(NoAcc, "1", Mid, 2, 1)         \* s1.
Nqsharp1 == Note(Sharp, "1", Mid, 1, 0)        \* q#1
Nsharp1 == Note(Sharp, "1", Mid, None, 0)     \* #1
Nsharp1dot == Note(Sharp, "1", Mid, None, 1)  \* #1.
Nsharp1up == Note(Sharp, "1", Up, None, 0)    \* #1'
N2 == Note(NoAcc, "2", Mid, None, 0)          \* 2
N3 == Note(NoAcc, "3", Mid, None, 0)          \* 3
N4 == Note(NoAcc, "4", Mid, None, 0)          \* 4
Rest == Note(NoAcc, "0", Mid, None, 0)        \* 0
Restq == Note(NoAcc, "0", Mid, 1, 0)          \* q0
\* parseNote strips only #, b and the digits from a figure's octave string: the
\* "-" of a dash stays in it
Dash == Note(NoAcc, "-", <<"-">>, None, 0)     \* -
Chord13 == Chord(Sharp, "1", Mid, NoAcc, "3", Mid, None)   \* #13
Chord13plain == Chord(NoAcc, "1", Mid, NoAcc, "3", Mid, None)     \* 13
Up3 == <<"'", "'", "'">>
RestChord == Chord(NoAcc, "0", Mid, NoAcc, "1", Mid, None)        \* 01
DashChord == Chord(NoAcc, "1", Mid, NoAcc, "-", <<"-">>, None)    \* 1-
Nsharpsharp1 == Note(<<"#", "#">>, "1", Mid, None, 0)             \* ##1
N1up3 == Note(NoAcc, "1", Up3, None, 0)                           \* 1'''
DashUp3 == Note(NoAcc, "-", <<"-">> \o Up3, None, 0)              \* -'''
Chord2sharps == Chord(Sharp, "1", Mid, Sharp, "3", Mid, None)     \* #1#3
ChordHigh == Chord(NoAcc, "1", Up, NoAcc, "3", <<"'", "'">>, None) \* 1'3''

TimeSigs ==
    {TimeSig(n, d, a, dt) : n \in 1..4, d \in {1, 2, 3, 4, 6, 8}, a \in {0, 1, 2, 4, 8},
                            dt \in {0, 1}} \ {TimeSig(n, d, 0, 1) : n \in 1..4, d \in 1..8}

TupletWords == {TupletWord(n) : n \in 1..8}

\* 4/4 1 2 3 4
DocBar == <<TimeSig(4, 4, 0, 0), N1, N2, N3, N4>>
\* R{ 1 1 1 } A{ 2 | 3 }
DocRepeat == <<RepeatWord(0), N1, N1, N1, W("}"), W("A{"), N2, W("|"), N3, W("}")>>
\* 3[ q1 q1 q1 ]
DocTuplet == <<TupletWord(3), Nq1, Nq1, Nq1, W("]")>>

Scripts == [docBar |-> DocBar, docRepeat |-> DocRepeat, docTuplet |-> DocTuplet]
Scripted == DOMAIN Scripts
Free == {"bars", "timesig", "repeats", "accidentals", "dashes", "tuplets", "escape",
         "directives", "figures", "fine", "tremolo"}
Scenarios == Free \cup Scripted

\* the words a part of family sc may have in position k
Vocabulary(sc, k) ==
    CASE sc = "bars" -> {N1, N1dot, Nq1, TimeSig(2, 4, 0, 0), TimeSig(2, 4, 4, 0),
                         TimeSig(3, 8, 0, 0)}
      [] sc = "timesig" -> IF k = 1 THEN TimeSigs ELSE {N1, Nq1, TimeSig(3, 8, 8, 0)}
      [] sc = "repeats" -> {N1, RepeatWord(0), RepeatWord(4), W("}"), W("A{"), W("|"),
                            TimeSig(1, 4, 0, 0)}
      [] sc = "accidentals" -> {Nsharp1, Nsharp1dot, N1, Nsharp1up, Dash, Chord13}
      [] sc = "dashes" -> {N1, Rest, Restq, Dash, Nq1, OctaveWord(<<">">>)}
      [] sc = "tuplets" -> IF k = 1 THEN TupletWords
                           ELSE {Nq1, Ns1dot, W("]"), TupletWord(3)}
      [] sc = "escape" -> {N1dot, N1, W("LP:"), W(":LP"), RepeatWord(0)}
      [] sc = "directives" -> {W("KeepLength"), W("angka"), W("key"), Nq1, N1, Dash}
      [] sc = "tremolo" -> {N1, N1dot, Tremolo(N1), Tremolo(N1dot), Tremolo(Chord13plain)}
      [] sc = "fine" -> IF k = 1 THEN {TimeSig(1, 4, 0, 0)}
                         ELSE {N1, W("Fine"), W("DC")}
      [] sc = "figures" -> {N1, RestChord, DashChord, Nsharpsharp1, N1up3, DashUp3,
                            OctaveWord(<<">">>), Chord2sharps, ChordHigh}
      [] sc = "scores" -> IF k = 1 THEN {TimeSig(1, 4, 0, 0)}
                           ELSE {N1, W("KeepLength"), W("angka"), W("g["), W("]g")}
      [] sc = "keys" -> {N1, W("key"), RepeatWord(0), W("}"), TimeSig(1, 4, 0, 0)}
      [] sc = "words" -> IF k <= 2 THEN {N1, Nq1, Nqsharp1}
                          ELSE {Nq1, Dash, W("tempo"), W("Fr="), W("letter"), W("R*"),
                                W("key"), TimeSig(2, 4, 0, 0), TupletWord(3), W("]"),
                                RepeatWord(0), W("}"), W("KeepLength"), W("angka"),
                                OctaveWord(<<">">>), W("\\p"), W("g["), W("]g")}

NextWords ==
    IF scen \in Scripted
    THEN (IF Len(hist) < Len(Scripts[scen]) THEN {Scripts[scen][Len(hist) + 1]} ELSE {})
    ELSE (IF Len(hist) < MaxWords THEN Vocabulary(scen, Len(hist) + 1) ELSE {})

\* the render passes and options a family is read under
Pass(m, w, l, s, sl) ==
    [midi |-> m, western |-> w, has_lyrics |-> l, withStaff |-> s, sloppy_bars |-> sl]
NotationPass == Pass(FALSE, FALSE, FALSE, FALSE, FALSE)
MidiPass == Pass(TRUE, FALSE, FALSE, FALSE, FALSE)
WesternPass == Pass(FALSE, TRUE, FALSE, TRUE, FALSE)

Passes(sc) ==
    CASE sc = "dashes" -> {NotationPass, MidiPass, WesternPass,
                           Pass(FALSE, FALSE, TRUE, FALSE, FALSE)}
      [] sc = "bars" -> {NotationPass, Pass(FALSE, FALSE, FALSE, FALSE, TRUE)}
      [] sc \in {"fine", "tremolo"} -> {NotationPass, MidiPass, WesternPass}
      [] sc \in {"accidentals", "directives", "figures"} -> {NotationPass, MidiPass}
      [] sc = "keys" -> {NotationPass, MidiPass, WesternPass,
                         Pass(TRUE, FALSE, FALSE, FALSE, TRUE)}
      [] sc = "words" -> {NotationPass, MidiPass, WesternPass}
      [] OTHER -> {NotationPass}

(***************************************************************************)
(* What a handler run was given and returned                               *)
(***************************************************************************)
NoNote == [need_space |-> FALSE, invis |-> FALSE, nBeams |-> 0, leftBeams |-> 0,
           toAdd |-> FZero, toAdd_preTuplet |-> FZero, pos |-> FZero,
           completed |-> FALSE, head |-> "", tie |-> FALSE, figures |-> <<>>,
           octave |-> <<>>, accidental |-> <<>>, ret |-> <<>>,
           tremolo_result |-> <<>>, plain |-> <<>>, inRestHack |-> FALSE]

NoteObs(m) == [need_space |-> m.need_space_for_accidental, invis |-> m.invisTieLast,
               nBeams |-> m.nBeams, leftBeams |-> m.leftBeams, toAdd |-> m.toAdd,
               toAdd_preTuplet |-> m.toAdd_preTuplet, pos |-> m.pos,
               completed |-> m.completed, head |-> m.placeholder_chord,
               tie |-> Contains(m.aftrlast, "~"), figures |-> m.figures,
               octave |-> m.octave, accidental |-> m.accidental, ret |-> m.ret,
               tremolo_result |-> m.tremolo_result, plain |-> m.ret,
               inRestHack |-> m.inRestHack]

\* op: the handler; e: its error; post: the bar position it leaves; len: the bar length
\* it leaves; the other fields are the state the handler found
Obs(op, w, e, post, len, note) ==
    [op |-> op, w |-> w, err |-> e, pre |-> barPos, post |-> post, barLength |-> len,
     tuplet |-> tuplet, stack |-> repeatStack, base |-> base_octave, note |-> note,
     inBeamGroup |-> inBeamGroup]

(***************************************************************************)
(* Initial state: NoteheadMarkup.initOneScore and the locals of getLY      *)
(***************************************************************************)
\* a text is a sequence of words, a word a sequence of strings
Pending == << <<"pending">> >>

\* headers = {}, and no text pass under way
NoScore ==
    /\ headers = EmptyDict
    /\ partNo = 1
    /\ nParts = 1
    /\ scoreNo = 1
    /\ uniqCount = 0
    /\ ret_defs = <<>>
    /\ text = <<>>
    /\ rewritten = Pending

\* the pass p of process_input
InPass(p) ==
    /\ midi = p.midi
    /\ western = p.western
    /\ has_lyrics = p.has_lyrics
    /\ withStaff = p.withStaff
    /\ sloppy_bars = p.sloppy_bars

\* NoteheadMarkup.initOneScore and the locals of getLY
InitOneScore ==
    /\ not_angka = FALSE
    /\ barLength = 64
    /\ beatLength = 16
    /\ barPos = FZero
    /\ startBarPos = FZero
    /\ inBeamGroup = 0
    /\ lastNBeams = 0
    /\ keepLength = 0
    /\ last_figures = <<>>
    /\ last_octaves = <<>>
    /\ last_accidentals = <<>>
    /\ base_octave = <<>>
    /\ current_accidentals = EmptyDict
    /\ barNo = 1
    /\ tuplet = <<1, 1>>
    /\ last_was_rest = FALSE
    /\ defines_done = {}
    /\ out = <<>>
    /\ lastPtr = 0
    /\ repeatStack = <<>>
    /\ escaping = 0
    /\ inTranspose = 0
    /\ afternext = <<>>
    /\ defined_jianpuGrace = FALSE
    /\ defined_JGR = FALSE
    /\ need_final_barline = FALSE
    /\ pc = "words"
    /\ err = "none"
    /\ hist = <<>>

Init ==
    /\ scen \in Scenarios
    /\ \E p \in Passes(scen) : InPass(p)
    /\ InitOneScore
    /\ NoScore

(***************************************************************************)
(* Actions: one per handler of the dispatcher in getLY                     *)
(***************************************************************************)
\* a faulty variant: the item is inserted one place too early
PyInsertBefore(lst, i, x) ==
    IF i = 0 THEN <<x>> \o lst
    ELSE SubSeq(lst, 1, i - 1) \o <<x>> \o SubSeq(lst, i, Len(lst))

\* list.insert(i, x)
PyInsert(lst, i, x) ==
    IF i >= Len(lst) THEN Append(lst, x)
    ELSE SubSeq(lst, 1, i) \o <<x>> \o SubSeq(lst, i + 1, Len(lst))

\* a fatal error (errExit, or an uncaught exception) ends the run
Fail(op, w, e, note) ==
    /\ pc' = "failed"
    /\ err' = e
    /\ hist' = Append(hist, Obs(op, w, e, barPos, barLength, note))
    /\ UNCHANGED <<optionVars, not_angka, noteheadVars, getLYVars, scen>>

Reading(w, t) == pc = "words" /\ escaping = 0 /\ w.t = t

\* process_note on a word that holds only base-octave changes
OctaveOnly(w) ==
    /\ Reading(w, "note")
    /\ w.figs = <<>>
    /\ w.chg # <<>>
    /\ base_octave' = addOctaves(w.chg, base_octave)
    /\ hist' = Append(hist, Obs("octave", w, "none", barPos, barLength, NoNote))
    /\ UNCHANGED <<optionVars, not_angka, barLength, beatLength, barPos, startBarPos,
                   inBeamGroup, lastNBeams, keepLength, last_figures, last_octaves,
                   last_accidentals, current_accidentals, barNo, tuplet, last_was_rest,
                   defines_done, getLYVars, pc, err, scen>>

\* process_note: a note, chord, rest or dash
ProcessNote(w) ==
    /\ Reading(w, "note")
    /\ w.figs # <<>>
    /\ LET base == IF w.chg # <<>> THEN addOctaves(w.chg, base_octave) ELSE base_octave
           m == toMarkup(w.figs, w.nb, w.dots, w.octs, w.accs, w.tremolo, base)
           \* for the record: the fragment of the same word without ///
           plain == IF w.tremolo
                    THEN toMarkup(w.figs, w.nb, w.dots, w.octs, w.accs, FALSE, base).ret
                    ELSE m.ret
           out1 == IF m.b4last # <<>>
                   THEN [out EXCEPT ![lastPtr + 1] = m.b4last \o @] ELSE out
           out2 == IF m.aftrlast # <<>> THEN PyInsert(out1, lastPtr + 1, m.aftrlast)
                   ELSE out1
       IN  IF m.err # "none"
           THEN Fail("note", w, m.err, NoteObs(m))
           ELSE /\ base_octave' = base
                /\ barPos' = m.barPos
                /\ barNo' = m.barNo
                /\ current_accidentals' = m.current_accidentals
                /\ inBeamGroup' = m.inBeamGroup
                /\ lastNBeams' = m.lastNBeams
                /\ last_figures' = m.last_figures
                /\ last_octaves' = m.last_octaves
                /\ last_accidentals' = m.last_accidentals
                /\ last_was_rest' = m.last_was_rest
                /\ defines_done' = m.defines_done
                /\ lastPtr' = Len(out2)
                /\ out' = Append(out2, m.ret)
                           \o (IF afternext = <<>> THEN <<>>
                               ELSE <<Opt(m.need_space_for_accidental, "\\halign #2")
                                      \o afternext>>)
                /\ afternext' = <<>>
                /\ need_final_barline' = TRUE
                /\ hist' = Append(hist, Obs("note", w, "none", m.barPos, barLength,
                                            [NoteObs(m) EXCEPT !.plain = plain]))
                /\ UNCHANGED <<optionVars, not_angka, barLength, beatLength, startBarPos,
                               keepLength, tuplet, repeatStack, escaping, inTranspose,
                               defined_jianpuGrace, defined_JGR,
                               pc, err, scen>>

\* process_time_signature, NoteheadMarkup.setTime and setAnac
ProcessTimeSignature(w) ==
    /\ Reading(w, "time")
    /\ LET len == BarLengthOf(w.n, w.d)
           anac == AnacPos(len, w.a, w.dt)
       IN  IF w.a # 0 /\ FLt(anac, FZero)
           THEN Fail("time", w, "AnacrusisTooLong", NoNote)
           ELSE /\ barLength' = len
                /\ beatLength' = BeatLengthOf(w.n, w.d)
                /\ barPos' = IF w.a # 0 THEN anac ELSE barPos
                /\ startBarPos' = IF w.a # 0 THEN anac ELSE startBarPos
                /\ out' = out \o <<(<<"\\time">>)>> \o Opt(w.a # 0, <<"\\partial">>)
                /\ hist' = Append(hist, Obs("time", w, "none",
                                            IF w.a # 0 THEN anac ELSE barPos, len, NoNote))
                /\ UNCHANGED <<optionVars, not_angka, inBeamGroup, lastNBeams, keepLength,
                               last_figures, last_octaves, last_accidentals, base_octave,
                               current_accidentals, barNo, tuplet, last_was_rest,
                               defines_done, lastPtr, repeatStack, escaping, inTranspose, graceVars,
                               need_final_barline, pc, err, scen>>

\* the handlers below change only the bar position, the repeat stack and the output
BracketFrame == <<optionVars, not_angka, barLength, beatLength, startBarPos, inBeamGroup,
                  lastNBeams, keepLength, last_figures, last_octaves, last_accidentals,
                  base_octave, current_accidentals, barNo, tuplet, last_was_rest,
                  defines_done, lastPtr, escaping, inTranspose, graceVars, need_final_barline,
                  pc, err, scen>>

\* R{ and Rn{
RepeatOpen(w) ==
    /\ Reading(w, "R{")
    /\ repeatStack' = Append(repeatStack, RepeatFrame(w.n, barPos))
    /\ out' = Append(out, <<"\\repeat volta", "{">>)
    /\ hist' = Append(hist, Obs("R{", w, "none", barPos, barLength, NoNote))
    /\ UNCHANGED <<BracketFrame, barPos>>

\* A{
AlternateOpen(w) ==
    /\ Reading(w, "A{")
    /\ repeatStack' = Append(repeatStack, AlternateFrame(barPos))
    /\ out' = Append(out, <<"\\alternative", "{", "{">>)
    /\ hist' = Append(hist, Obs("A{", w, "none", barPos, barLength, NoNote))
    /\ UNCHANGED <<BracketFrame, barPos>>

\* } : repeatStack.pop() raises IndexError on an empty stack
RepeatClose(w) ==
    /\ Reading(w, "}")
    /\ IF repeatStack = <<>>
       THEN Fail("}", w, "IndexError", NoNote)
       ELSE LET frame == repeatStack[Len(repeatStack)]
                pos == CloseBarPos(barPos, frame, barLength)
            IN  /\ repeatStack' = DropLast(repeatStack)
                /\ out' = Append(out, [i \in 1..frame[1] |-> "}"])
                /\ barPos' = pos
                /\ hist' = Append(hist, Obs("}", w, "none", pos, barLength, NoNote))
                /\ UNCHANGED BracketFrame

\* | : between alternates, or else passed through as a bar check
Bar(w) ==
    /\ Reading(w, "|")
    /\ LET sep == IsAlternateSeparator(repeatStack)
           pos == IF sep THEN repeatStack[Len(repeatStack)][2] ELSE barPos
       IN  /\ barPos' = pos
           /\ out' = Append(out, IF sep THEN <<"}", "{">> ELSE <<"|">>)
           /\ hist' = Append(hist, Obs("|", w, "none", pos, barLength, NoNote))
           /\ UNCHANGED <<BracketFrame, repeatStack>>

\* the handlers below leave the bar position and the repeat stack alone too
PlainFrame == <<optionVars, graceVars, barLength, beatLength, barPos, startBarPos, inBeamGroup,
                lastNBeams, last_figures, last_octaves, last_accidentals, base_octave,
                current_accidentals, barNo, last_was_rest, defines_done, lastPtr,
                repeatStack, need_final_barline, pc, err, scen>>

\* N[
TupletStart(w) ==
    /\ Reading(w, "N[")
    /\ tuplet' = <<TupletNum(w.n), w.n>>
    /\ out' = Append(out, <<"\\times", "{">>)
    /\ hist' = Append(hist, Obs("N[", w, "none", barPos, barLength, NoNote))
    /\ UNCHANGED <<PlainFrame, not_angka, keepLength, escaping, inTranspose>>

\* ]
TupletEnd(w) ==
    /\ Reading(w, "]")
    /\ tuplet' = <<1, 1>>
    /\ out' = Append(out, <<"}">>)
    /\ hist' = Append(hist, Obs("]", w, "none", barPos, barLength, NoNote))
    /\ UNCHANGED <<PlainFrame, not_angka, keepLength, escaping, inTranspose>>

KeepLengthWord(w) ==
    /\ Reading(w, "KeepLength")
    /\ keepLength' = 1
    /\ hist' = Append(hist, Obs("KeepLength", w, "none", barPos, barLength, NoNote))
    /\ UNCHANGED <<PlainFrame, not_angka, tuplet, out, escaping, inTranspose>>

\* angka / Indonesian
Angka(w) ==
    /\ Reading(w, "angka")
    /\ not_angka' = TRUE
    /\ hist' = Append(hist, Obs("angka", w, "none", barPos, barLength, NoNote))
    /\ UNCHANGED <<PlainFrame, keepLength, tuplet, out, escaping, inTranspose>>

\* a faulty variant: a key signature clears the accidental memory
KeySignatureForgets(w) ==
    /\ Reading(w, "key")
    /\ out' = IF getLY_midi \/ western
              THEN out \o Opt(inTranspose = 1, <<"}">>) \o <<(<<"\\transpose", "{">>)>>
              ELSE Append(out, <<"\\mark">>)
    /\ inTranspose' = IF getLY_midi \/ western THEN 1 ELSE inTranspose
    /\ current_accidentals' = EmptyDict
    /\ hist' = Append(hist, Obs("key", w, "none", barPos, barLength, NoNote))
    /\ UNCHANGED <<optionVars, graceVars, not_angka, barLength, beatLength, barPos,
                   startBarPos, inBeamGroup, lastNBeams, keepLength, last_figures,
                   last_octaves, last_accidentals, base_octave, barNo, tuplet,
                   last_was_rest, defines_done, lastPtr, repeatStack, escaping,
                   need_final_barline, pc, err, scen>>

\* process_key_signature
KeySignature(w) ==
    /\ Reading(w, "key")
    /\ out' = IF getLY_midi \/ western
              THEN out \o Opt(inTranspose = 1, <<"}">>) \o <<(<<"\\transpose", "{">>)>>
              ELSE Append(out, <<"\\mark">>)
    /\ inTranspose' = IF getLY_midi \/ western THEN 1 ELSE inTranspose
    /\ hist' = Append(hist, Obs("key", w, "none", barPos, barLength, NoNote))
    /\ UNCHANGED <<PlainFrame, not_angka, keepLength, tuplet, escaping>>

\* the fragments of Fine and DC, and the barline finalize_output appends
FineMark == <<"\\mark", "Fine", "\\bar", "|.">>
DCMark == <<"\\mark", "D.C. al Fine", "\\bar", "||">>
FinalBar == <<"\\bar", "|.">>

\* Fine
FineWord(w) ==
    /\ Reading(w, "Fine")
    /\ need_final_barline' = FALSE
    /\ out' = Append(out, FineMark)
    /\ hist' = Append(hist, Obs("Fine", w, "none", barPos, barLength, NoNote))
    /\ UNCHANGED <<optionVars, not_angka, noteheadVars, lastPtr, repeatStack, escaping,
                   inTranspose, graceVars, pc, err, scen>>

\* DC
DCWord(w) ==
    /\ Reading(w, "DC")
    /\ need_final_barline' = FALSE
    /\ out' = Append(out, DCMark)
    /\ hist' = Append(hist, Obs("DC", w, "none", barPos, barLength, NoNote))
    /\ UNCHANGED <<optionVars, not_angka, noteheadVars, lastPtr, repeatStack, escaping,
                   inTranspose, graceVars, pc, err, scen>>

\* a line starting LP:
EscapeStart(w) ==
    /\ pc = "words"
    /\ w.t = "LP:"
    /\ escaping' = 1
    /\ hist' = Append(hist, Obs("LP:", w, "none", barPos, barLength, NoNote))
    /\ UNCHANGED <<PlainFrame, not_angka, keepLength, tuplet, out, inTranspose>>

\* a line starting :LP
EscapeEnd(w) ==
    /\ pc = "words"
    /\ w.t = ":LP"
    /\ escaping' = 0
    /\ hist' = Append(hist, Obs(":LP", w, "none", barPos, barLength, NoNote))
    /\ UNCHANGED <<PlainFrame, not_angka, keepLength, tuplet, out, inTranspose>>

\* any other line while escaping: copied to the output
EscapedLine(w) ==
    /\ pc = "words"
    /\ escaping = 1
    /\ w.t \notin {"LP:", ":LP"}
    /\ out' = Append(out, <<"verbatim">>)
    /\ hist' = Append(hist, Obs("escaped", w, "none", barPos, barLength, NoNote))
    /\ UNCHANGED <<PlainFrame, not_angka, keepLength, tuplet, escaping, inTranspose>>

\* a faulty variant: the barline is appended in every pass
FinalBarlineEveryPass(need, m) == IF need THEN <<FinalBar>> ELSE <<>>

\* finalize_output, its first step: the barline appended to the fragments of the
\* part; m is getLY's parameter midi
FinalBarline(need, m) == IF need /\ ~m THEN <<FinalBar>> ELSE <<>>

\* a faulty variant: the group left open by the last note is not closed
ClosesAtEndNever(ibg) == FALSE

\* lines 2764-2770: a beam group left open by the last note is closed
ClosesAtEnd(ibg) == ibg = 1 /\ ~getLY_midi /\ ~western

\* the end of the part: the final checks of getLY, NoteheadMarkup.endScore and the
\* barline of finalize_output
EndPart ==
    /\ pc = "words"
    /\ LET e == FinalChecks(barPos, startBarPos, barNo, repeatStack, escaping, sloppy_bars)
           closeBeam == ClosesAtEnd(inBeamGroup)
           out1 == IF closeBeam THEN [out EXCEPT ![lastPtr + 1] = Append(@, "]")] ELSE out
       IN  /\ pc' = IF e = "none" THEN "done" ELSE "failed"
           /\ err' = e
           /\ out' = IF e = "NoJianpu" THEN out
                     ELSE out1 \o Opt(inTranspose = 1, <<"}">>)
                               \o (IF e = "none"
                                    THEN FinalBarline(need_final_barline, getLY_midi)
                                    ELSE <<>>)
           /\ hist' = Append(hist, Obs("end", W("end"), e, barPos, barLength, NoNote))
           /\ UNCHANGED <<optionVars, not_angka, noteheadVars, lastPtr, repeatStack,
                          escaping, inTranspose, graceVars, need_final_barline, scen>>

Next ==
    \/ \E w \in NextWords : OctaveOnly(w)
    \/ \E w \in NextWords : ProcessNote(w)
    \/ \E w \in NextWords : ProcessTimeSignature(w)
    \/ \E w \in NextWords : RepeatOpen(w)
    \/ \E w \in NextWords : AlternateOpen(w)
    \/ \E w \in NextWords : RepeatClose(w)
    \/ \E w \in NextWords : Bar(w)
    \/ \E w \in NextWords : TupletStart(w)
    \/ \E w \in NextWords : TupletEnd(w)
    \/ \E w \in NextWords : KeepLengthWord(w)
    \/ \E w \in NextWords : Angka(w)
    \/ \E w \in NextWords : KeySignature(w)
    \/ \E w \in NextWords : EscapeStart(w)
    \/ \E w \in NextWords : EscapeEnd(w)
    \/ \E w \in NextWords : EscapedLine(w)
    \/ \E w \in NextWords : FineWord(w)
    \/ \E w \in NextWords : DCWord(w)
    \/ EndPart

Spec == Init /\ [][Next]_vars

(***************************************************************************)
(* Reading the history of a run                                            *)
(***************************************************************************)
Steps == Len(hist)
Last == hist[Len(hist)]
After(op) == hist # <<>> /\ Last.op = op
\* step k read a note, chord, rest or dash and accepted it
Played(k) == hist[k].op = "note" /\ hist[k].err = "none"

RECURSIVE BarStart(_)
\* the last step before step i whose note completed a bar; 0 when there is none
BarStart(i) ==
    IF i <= 1 THEN 0
    ELSE IF Played(i - 1) /\ hist[i - 1].note.completed THEN i - 1
    ELSE BarStart(i - 1)

RECURSIVE SumOfNotes(_, _)
\* the durations of the notes accepted at steps j+1 .. i
SumOfNotes(j, i) ==
    IF i <= j THEN FZero
    ELSE FAdd(SumOfNotes(j, i - 1), IF Played(i) THEN hist[i].note.toAdd ELSE FZero)

RECURSIVE TimeInForce(_)
\* the time signature in force after step i, 4/4 before the first one
TimeInForce(i) ==
    IF i = 0 THEN <<4, 4>>
    ELSE IF hist[i].op = "time" /\ hist[i].err = "none" THEN <<hist[i].w.n, hist[i].w.d>>
    ELSE TimeInForce(i - 1)

\* step k moved the bar position other than by a note's duration
Repositions(k) ==
    \/ hist[k].op = "time" /\ hist[k].w.a # 0
    \/ hist[k].op = "|" /\ IsAlternateSeparator(hist[k].stack)
    \/ hist[k].op = "}" /\ hist[k].pre # hist[k].post

\* the bar that step i is in holds no step that repositions
CleanBar(i) == \A k \in (BarStart(i) + 1)..i : ~Repositions(k)

(***************************************************************************)
(* C1: bar arithmetic                                                      *)
(***************************************************************************)
\* C1 as stated: whenever a note completes a bar, the durations since the previous
\* bar reset sum to exactly 64*n/d of the time signature in force, anacrusis bars,
\* time-signature changes, repeat closes and alternate separators included.
C1EveryBar ==
    After("note") /\ Last.err = "none" /\ Last.note.completed
        => LET ts == TimeInForce(Steps)
           IN  SumOfNotes(BarStart(Steps), Steps) = F(64 * ts[1], ts[2])

\* C1, amended: a note that would pass the bar length is a fatal error; an accepted
\* note leaves the bar position below the bar length or completes the bar; and in a
\* bar with no anacrusis setting, no alternate separator and no closing brace that
\* moved the position, the durations since the previous bar reset sum to the bar
\* position, which is the bar length in force when the bar is completed.
C1BarSum ==
    After("note") =>
        /\ FLt(FInt(barLength), Last.note.pos) => Last.err # "none"
        /\ Last.err = "none" =>
            /\ Last.note.completed \/ FLt(barPos, FInt(barLength))
            /\ Last.note.completed => barPos = FZero
            /\ CleanBar(Steps) =>
                SumOfNotes(BarStart(Steps), Steps) =
                    IF Last.note.completed THEN FInt(barLength) ELSE barPos

\* a second bar of 3/8 completed by two or more notes
C1Witness ==
    /\ After("note") /\ Last.err = "none" /\ Last.note.completed
    /\ CleanBar(Steps)
    /\ BarStart(Steps) > 0
    /\ Steps - BarStart(Steps) >= 2
    /\ barLength = 24

(***************************************************************************)
(* C2: the end of a part                                                   *)
(***************************************************************************)
\* one of the checks getLY makes before endScore rejects the part
FailsEarlierCheck == (FIsZero(barPos) /\ barNo = 1) \/ repeatStack # <<>> \/ escaping = 1

\* step k read an unbeamed crotchet that no word before it has to be closed for
UnbeamedCrotchet(k) ==
    /\ Played(k)
    /\ hist[k].note.nBeams = 0
    /\ hist[k].note.toAdd = FInt(16)
    /\ \A i \in 1..Len(out) : ~Contains(out[i], "[") /\ ~Contains(out[i], "]")

Pickup(a, dt) == IF dt = 1 THEN FMul(F(64, a), F(3, 2)) ELSE F(64, a)

\* what the time signature word read last has done, len being the bar length it
\* is to set
TimeSignatureSets(len) ==
    LET w == Last.w
        start == FSub(len, Pickup(w.a, w.dt))
    IN  IF w.a # 0 /\ FLt(start, FZero)
        THEN Last.err = "AnacrusisTooLong"
        ELSE /\ Last.err = "none"
             /\ FInt(barLength) = len
             /\ beatLength = IF w.d > 4 /\ w.n % 3 = 0 THEN 24 ELSE 16
             /\ w.a # 0 => barPos = start /\ startBarPos = start
             /\ w.a # 0 /\ Pickup(w.a, w.dt) = len => barPos = FZero
             /\ w.a = 0 => barPos = Last.pre

\* C3 as stated: a time signature n/d sets the bar length to 64*n/d (beat length 24
\* when d > 4 and n is a multiple of 3, else 16); an anacrusis sets the bar position
\* and the start position to the bar length minus the pickup; a pickup longer than
\* the bar is fatal; a pickup equal to the bar leaves the bar position 0.
C3ExactBarLength ==
    After("time") => TimeSignatureSets(F(64 * Last.w.n, Last.w.d))

\* C3, amended: the same, with the bar length the whole number of units in 64*n/d.
C3TimeSignature ==
    After("time") => TimeSignatureSets(FInt((64 * Last.w.n) \div Last.w.d))

\* 3/8 with a dotted pickup was read: compound beat, positions set to 24 - 12
C3Witness ==
    /\ After("time") /\ Last.err = "none"
    /\ Last.w.n = 3 /\ Last.w.d = 8 /\ Last.w.a = 8 /\ Last.w.dt = 1
    /\ beatLength = 24
    /\ barPos = FInt(12) /\ startBarPos = FInt(12)

(***************************************************************************)
(* C4: the accidental memory                                               *)
(***************************************************************************)
PitchesOf(figures) == {figures[i] : i \in {j \in 1..Len(figures) : IsPitch(figures[j])}}

\* the steps of the bar of step i, before i, that sounded pitch f in the octave of
\* step i
SoundedInBar(i, f) ==
    {k \in (BarStart(i) + 1)..(i - 1) :
        /\ Played(k)
        /\ hist[k].note.octave = hist[i].note.octave
        /\ f \in PitchesOf(hist[k].note.figures)}

\* the accidental that pitch f of step i was last given in its bar and octave
AccidentalInBar(i, f) ==
    LET S == SoundedInBar(i, f)
    IN  IF S = {} THEN <<>>
        ELSE hist[CHOOSE k \in S : \A j \in S : j <= k].note.accidental

\* step i gives some pitch an accidental other than the one its bar has given it
NewAccidental(i) ==
    \E f \in PitchesOf(hist[i].note.figures) :
        hist[i].note.accidental # AccidentalInBar(i, f)

DashAfterNote ==
    After("note") /\ Last.err = "none" /\ Last.w.figs = <<"-">> /\ Last.note.invis

RECURSIVE NoteBefore(_)
\* the last step before step i that read a note or chord itself; 0 when none
NoteBefore(i) ==
    IF i <= 1 THEN 0
    ELSE IF Played(i - 1) /\ hist[i - 1].w.figs # <<"-">> THEN i - 1
    ELSE NoteBefore(i - 1)

\* the dash read last has the figures, resolved octaves and accidentals of the
\* note before it, has left the remembered last note as that note left it, and
\* has put a tie after the previous fragment
DashReusesNote ==
    LET k == NoteBefore(Steps)
    IN  /\ k > 0
        /\ Last.note.figures = <<"-">> \o hist[k].note.figures
        /\ Last.note.octave = hist[k].note.octave
        /\ Last.note.accidental = hist[k].note.accidental
        /\ last_figures = hist[k].w.figs
        /\ Concat(last_octaves) = hist[k].note.octave
        /\ Concat(last_accidentals) = hist[k].note.accidental
        /\ ~last_was_rest
        /\ Last.note.tie

\* C5 as stated: a dash following a note reuses that note's figures, resolved
\* octaves and accidentals, leaves the remembered last note unchanged, adds a tie
\* and never flags an accidental for re-display, wherever in the bar it falls; and
\* `1 - - -` in the default bar is one note extended to the whole bar, accepted.
C5DashNeverFlags ==
    /\ DashAfterNote => DashReusesNote /\ ~Last.note.need_space
    /\ (/\ scen = "dashes"
        /\ Steps = 4
        /\ hist[1].w = N1
        /\ \A k \in 2..4 : hist[k].w = Dash) =>
            /\ \A k \in 1..4 : Played(k)
            /\ Last.note.completed
            /\ SumOfNotes(0, 4) = FInt(64)

\* the part of C5 that the code keeps: the reuse, the unchanged last note, the tie
C5DashReuses == DashAfterNote => DashReusesNote

\* a dash is the first word of a bar, after a sharpened note completed the bar
\* before, and is flagged
C5FlaggedDash ==
    /\ DashAfterNote
    /\ DashReusesNote
    /\ BarStart(Steps) = Steps - 1
    /\ Last.note.accidental = <<"#">>
    /\ Last.note.need_space

(***************************************************************************)
(* C6: a dash after a rest                                                 *)
(***************************************************************************)
\* the word read last is a dash and the word before it was an accepted rest, or
\* an accepted dash that itself extended a rest
DashAfterRest ==
    /\ After("note") /\ Last.w.figs = <<"-">>
    /\ Steps >= 2 /\ Played(Steps - 1)
    /\ hist[Steps - 1].note.head = "r"
    /\ ~hist[Steps - 1].note.invis

\* C6 as stated: a rest immediately followed by dashes is processed successfully in
\* every render mode: each dash advances the bar position by its duration unless
\* that crosses the barline, the fragment is a rest, no tie is generated, and the
\* last event is still recorded as a rest.
C6DashExtendsRest ==
    DashAfterRest =>
        /\ Last.err \in {"none", "BarcheckFail"}
        /\ Last.err = "none" =>
            /\ Last.note.pos = FAdd(Last.pre, Last.note.toAdd)
            /\ Last.note.head = "r"
            /\ ~Last.note.tie
            /\ last_was_rest

\* the dash after a rest has stopped the run on the assertion of _process_figures,
\* here in the MIDI pass
C6AssertionFails ==
    /\ DashAfterRest
    /\ midi
    /\ hist[Steps - 1].w = Rest
    /\ Last.err = "AssertionError"
    /\ pc = "failed"

(***************************************************************************)
(* C7: tuplets                                                             *)
(***************************************************************************)
IsPowerOfTwo(n) == \E k \in 0..n : 2 ^ k = n

LargestPowerOfTwoBelow(n) ==
    CHOOSE p \in 1..n : /\ IsPowerOfTwo(p) /\ p < n
                        /\ \A q \in 1..n : IsPowerOfTwo(q) /\ q < n => q <= p

\* the numerator for N[, N >= 2
NumFor(n) == IF IsPowerOfTwo(n) THEN (3 * n) \div 2 ELSE LargestPowerOfTwoBelow(n)

\* the last n words were accepted notes of one length before scaling, and the word
\* before them was n[
EqualNotesIn(n) ==
    /\ Steps > n
    /\ hist[Steps - n].op = "N[" /\ hist[Steps - n].w.n = n
    /\ \A j \in (Steps - n + 1)..Steps :
        Played(j) /\ hist[j].note.toAdd_preTuplet = Last.note.toAdd_preTuplet

\* C7: N[ (N >= 2) sets the ratio to num/N, num = 3N/2 when N is a power of two
\* and else the largest power of two below N; every note is scaled by exactly the
\* ratio in force; N equal notes of length L after N[ advance the position by
\* num*L in all; `3[ q1 q1 q1 ]` advances it by 16 units; `]` restores 1:1.
C7Tuplets ==
    /\ After("N[") /\ Last.w.n >= 2 => tuplet = <<NumFor(Last.w.n), Last.w.n>>
    /\ After("note") =>
        /\ FMul(Last.note.toAdd, FInt(Last.tuplet[2]))
              = FMul(Last.note.toAdd_preTuplet, FInt(Last.tuplet[1]))
        /\ Last.note.pos = FAdd(Last.pre, Last.note.toAdd)
        /\ \A n \in 2..8 :
            EqualNotesIn(n) =>
                SumOfNotes(Steps - n, Steps)
                    = FMul(FInt(NumFor(n)), Last.note.toAdd_preTuplet)
    /\ After("]") => tuplet = <<1, 1>> /\ barPos = Last.pre
    /\ scen = "docTuplet" /\ Steps = Len(DocTuplet) => barPos = FInt(16)

\* `3[ q1 q1 q1 ]` has been read: three quavers at 2/3 took 16 units
C7Witness ==
    /\ scen = "docTuplet" /\ After("]")
    /\ hist[1].op = "N[" /\ hist[2].tuplet = <<2, 3>>
    /\ SumOfNotes(1, 4) = FInt(16)
    /\ barPos = FInt(16)
    /\ tuplet = <<1, 1>>

(***************************************************************************)
(* C8: alternate separators                                                *)
(***************************************************************************)
RECURSIVE Opener(_, _)
\* the step that opened the innermost bracket still open after step i, passing over
\* depth closed brackets; 0 when there is none
Opener(i, depth) ==
    IF i = 0 THEN 0
    ELSE IF hist[i].op = "}" /\ hist[i].err = "none" THEN Opener(i - 1, depth + 1)
    ELSE IF hist[i].op \in {"R{", "A{"}
         THEN (IF depth = 0 THEN i ELSE Opener(i - 1, depth - 1))
    ELSE Opener(i - 1, depth)

\* the | read last is inside an alternate group, innermost
InAlternate == After("|") /\ Opener(Steps - 1, 0) > 0 /\ hist[Opener(Steps - 1, 0)].op = "A{"

\* C8: a | whose innermost open bracket is an alternate group resets the bar position
\* to the position at which that A{ was read, whatever was read in between; any
\* other | leaves the bar position alone; `R{ 1 1 1 } A{ 2 | 3 }` is accepted.
C8AlternateSeparator ==
    /\ After("|") =>
        barPos = IF InAlternate THEN hist[Opener(Steps - 1, 0)].pre ELSE Last.pre
    /\ scen = "docRepeat" /\ After("end") /\ Steps = Len(DocRepeat) + 1 => pc = "done"

\* a | has taken the bar position back to where A{ was read, after the first beat
C8Witness ==
    /\ InAlternate
    /\ hist[Opener(Steps - 1, 0)].pre = FInt(16)
    /\ Last.pre # FInt(16)
    /\ barPos = FInt(16)

(***************************************************************************)
(* C9: counted repeats                                                     *)
(***************************************************************************)
\* the } read last closes a repeat that was opened with a written count of 2 or more
ClosesCountedRepeat ==
    /\ After("}") /\ Last.err = "none"
    /\ Opener(Steps - 1, 0) > 0
    /\ hist[Opener(Steps - 1, 0)].op = "R{"
    /\ hist[Opener(Steps - 1, 0)].w.n >= 2

\* C9 as stated: RN{ with N >= 2 written is opened as a percent repeat that records
\* the bar position, and on its } the bar position becomes (position at close +
\* (N-1) * length of the section) modulo the bar length.
C9PercentRepeat ==
    /\ After("R{") /\ Last.w.n >= 2 =>
        /\ repeatStack[Len(repeatStack)] = <<1, Last.pre, Last.w.n - 1>>
        /\ out[Len(out)][1] = "\\repeat percent"
    /\ ClosesCountedRepeat =>
        LET k == Opener(Steps - 1, 0)
            extra == FMul(FInt(hist[k].w.n - 1), SumOfNotes(k, Steps))
        IN  barPos = FMod(FAdd(Last.pre, extra), barLength)

\* `R4{ 1 1 }` has been read: the section of 32 units was closed at position 32 and
\* the position is still 32, not (32 + 3 * 32) mod 64 = 0
C9ReadAsVolta ==
    /\ ClosesCountedRepeat
    /\ hist[Opener(Steps - 1, 0)].w.n = 4
    /\ SumOfNotes(Opener(Steps - 1, 0), Steps) = FInt(32)
    /\ Last.pre = FInt(32)
    /\ Last.stack[Len(Last.stack)] = <<1, FZero, 0>>
    /\ barPos = FInt(32)

(***************************************************************************)
(* C10: brackets and LP: blocks at the end of a part                       *)
(***************************************************************************)
RECURSIVE Tokens(_, _, _)
\* how many times tok is among the first i fragments of outp
Tokens(outp, tok, i) ==
    IF i = 0 THEN 0
    ELSE Tokens(outp, tok, i - 1)
         + Cardinality({j \in 1..Len(outp[i]) : outp[i][j] = tok})

\* no word of the part wrote a brace for anything but a repeat or alternate
OnlyBracketBraces == \A k \in 1..Steps : hist[k].op \notin {"N[", "]", "key"}

\* C10: a part that ends with a repeat or alternate still open, or inside an LP:
\* block, is rejected; every accepted part has an empty repeat stack, every R{ and
\* A{ of it matched by a }, and as many closing as opening braces written for them.
C10BracketsClosed ==
    After("end") =>
        /\ Last.stack # <<>> \/ escaping = 1 => pc = "failed" /\ err # "none"
        /\ Opener(Steps - 1, 0) > 0 => pc = "failed"
        /\ pc = "done" =>
            /\ repeatStack = <<>>
            /\ escaping = 0
            /\ OnlyBracketBraces => Tokens(out, "{", Len(out)) = Tokens(out, "}", Len(out))

\* a part ended inside a repeat, after its first note, and was rejected for that
C10Witness ==
    /\ After("end")
    /\ Opener(Steps - 1, 0) > 0
    /\ Last.stack # <<>>
    /\ pc = "failed" /\ err = "UnterminatedRepeat"

(***************************************************************************)
(* process_input and process_headers_line: the headers of a score, part    *)
(* after part and pass after pass                                          *)
(***************************************************************************)
MaxLines == 3
MaxParts == 3
HeaderNames == {"title", "composer", "instrument"}
HeaderValues == {"A", "B"}

\* not headers.get(hName, hValue) == hValue
HeaderChanges(hdrs, hName, hValue) == hName \in DOMAIN hdrs /\ hdrs[hName] # hValue

\* headers[hName] = hValue
SetHeader(hdrs, hName, hValue) ==
    [k \in DOMAIN hdrs \cup {hName} |-> IF k = hName THEN hValue ELSE hdrs[k]]

\* a faulty variant: the instrument is kept from part to part
AfterPartKeeps(hdrs, n) == hdrs
\* if len(parts) > 1 and "instrument" in headers: del headers["instrument"]
AfterPart(hdrs, n) ==
    IF n > 1 /\ "instrument" \in DOMAIN hdrs
    THEN [k \in DOMAIN hdrs \ {"instrument"} |-> hdrs[k]]
    ELSE hdrs

HeaderObs(op, hName, hValue, e) ==
    [op |-> op, name |-> hName, value |-> hValue, err |-> e, before |-> headers,
     part |-> partNo, midi |-> midi]

HeaderLinesRead == Cardinality({k \in 1..Len(hist) : hist[k].op = "header"})

\* a score of one to MaxParts parts, before the first part of the first pass
InitHeaders ==
    /\ scen = "headers"
    /\ InPass(NotationPass)
    /\ InitOneScore
    /\ headers = EmptyDict
    /\ partNo = 1
    /\ nParts \in 1..MaxParts
    /\ scoreNo = 1
    /\ uniqCount = 0
    /\ ret_defs = <<>>
    /\ text = <<>>
    /\ rewritten = Pending

HeaderFrame == <<western, has_lyrics, withStaff, sloppy_bars, not_angka, noteheadVars,
                 getLYVars, scen, nParts, scoreNo, uniqCount, ret_defs, textVars>>

\* getLY reads a line name=value: process_headers_line
HeaderLine(hName, hValue) ==
    /\ pc = "words"
    /\ HeaderLinesRead < MaxLines
    /\ IF HeaderChanges(headers, hName, hValue)
       THEN /\ pc' = "failed"
            /\ err' = "HeaderChanged"
            /\ hist' = Append(hist, HeaderObs("header", hName, hValue, "HeaderChanged"))
            /\ UNCHANGED <<headers, partNo, midi, HeaderFrame>>
       ELSE /\ headers' = SetHeader(headers, hName, hValue)
            /\ hist' = Append(hist, HeaderObs("header", hName, hValue, "none"))
            /\ UNCHANGED <<partNo, midi, pc, err, HeaderFrame>>

\* process_input after getLY has returned for a part that is not the last
PartEnd ==
    /\ pc = "words"
    /\ partNo < nParts
    /\ headers' = AfterPart(headers, nParts)
    /\ partNo' = partNo + 1
    /\ hist' = Append(hist, HeaderObs("part", "", "", "none"))
    /\ UNCHANGED <<midi, pc, err, HeaderFrame>>

\* process_input after the last part: the audio pass starts with headers = {},
\* and the score is done after it
PassEnd ==
    /\ pc = "words"
    /\ partNo = nParts
    /\ hist' = Append(hist, HeaderObs("pass", "", "", "none"))
    /\ IF ~midi
       THEN /\ midi' = TRUE
            /\ headers' = EmptyDict
            /\ partNo' = 1
            /\ UNCHANGED <<pc, err, HeaderFrame>>
       ELSE /\ pc' = "done"
            /\ UNCHANGED <<midi, headers, partNo, err, HeaderFrame>>

NextHeaders ==
    \/ \E hName \in HeaderNames, hValue \in HeaderValues : HeaderLine(hName, hValue)
    \/ PartEnd
    \/ PassEnd

SpecHeaders == InitHeaders /\ [][NextHeaders]_vars

(***************************************************************************)
(* C11: headers                                                            *)
(***************************************************************************)
\* steps j < i are of one pass
SamePass(j, i) == \A k \in j..i : hist[k].op # "pass"

\* an earlier line of the pass of step i gave the header of step i another value,
\* and for the instrument of a score of several parts did so in the same part
GivenAnotherValue(i) ==
    \E j \in 1..(i - 1) :
        /\ hist[j].op = "header"
        /\ SamePass(j, i)
        /\ hist[j].name = hist[i].name
        /\ hist[j].value # hist[i].value
        /\ hist[i].name = "instrument" /\ nParts > 1 => hist[j].part = hist[i].part

\* C11: within one score and pass, a header line is fatal exactly when the header
\* was given a different value before, except that in a score of several parts the
\* instrument is forgotten after each part; an accepted line sets the header and
\* leaves the others alone; the map is handed on from part to part.
C11HeadersKept ==
    /\ After("header") =>
        /\ Last.err # "none" <=> GivenAnotherValue(Steps)
        /\ Last.err = "none" =>
            /\ headers[Last.name] = Last.value
            /\ DOMAIN headers = DOMAIN Last.before \cup {Last.name}
            /\ \A k \in DOMAIN Last.before \ {Last.name} : headers[k] = Last.before[k]
    /\ After("part") =>
        /\ \A k \in DOMAIN Last.before :
            k # "instrument" => k \in DOMAIN headers /\ headers[k] = Last.before[k]
        /\ "instrument" \in DOMAIN headers <=> "instrument" \in DOMAIN Last.before /\ nParts = 1

\* the second part names another instrument than the first, which is accepted, and
\* the title of the first part is still in the map
C11Witness ==
    /\ After("header") /\ Last.err = "none"
    /\ Last.part = 2 /\ Last.name = "instrument"
    /\ "title" \in DOMAIN Last.before /\ "title" \in DOMAIN headers
    /\ \E i \in 1..(Steps - 1) :
        /\ SamePass(i, Steps)
        /\ hist[i].op = "header" /\ hist[i].part = 1
        /\ hist[i].name = "instrument"
        /\ hist[i].value # Last.value

(***************************************************************************)
(* C12: words whose figures are invalid                                    *)
(***************************************************************************)
\* the octave marks written on a figure
MarksOf(oct) == SelectSeq(oct, LAMBDA c : c \in {"'", ","})

\* a chord word holds a rest or a dash
RestOrDashInChord(w) == Len(w.figs) > 1 /\ (Contains(w.figs, "0") \/ Contains(w.figs, "-"))

\* some figure of the word has an accidental other than none, sharp or flat
OddAccidental(w) == \E i \in 1..Len(w.accs) : w.accs[i] \notin ValidAccidentals

\* some figure of the word has octave marks that, added to the base octave in
\* force, leave the five levels
OctaveOutOfRange(w, base) ==
    \E i \in 1..Len(w.octs) :
        addOctaves(MarksOf(w.octs[i]), addOctaves(w.chg, base)) \notin ValidOctaves

InvalidFigures(w, base) ==
    RestOrDashInChord(w) \/ OddAccidental(w) \/ OctaveOutOfRange(w, base)

\* the word read last was fatal and the bar position is where it was
FatalUnadvanced ==
    /\ Last.err # "none"
    /\ pc = "failed"
    /\ Last.post = Last.pre
    /\ barPos = Last.pre

\* C12 as stated: a chord word that holds a rest or a dash, and a word with any
\* figure whose accidental is not none, sharp or flat or whose octave with the
\* base octave added is outside the five levels, is fatal and leaves the bar
\* position where it was.
C12InvalidFatal ==
    After("note") /\ InvalidFigures(Last.w, Last.base) => FatalUnadvanced

\* C12 for every word but a dash that continues a note: such a dash takes the
\* octaves of the note it continues, and its own marks and the base octave are
\* not looked at.
C12InvalidFatalButDash ==
    After("note") /\ InvalidFigures(Last.w, Last.base) /\ ~Last.note.invis
        => FatalUnadvanced

\* after an accepted note, a note three octaves up is refused at position 16
C12Witness ==
    /\ After("note")
    /\ Steps >= 2
    /\ Played(Steps - 1)
    /\ OctaveOutOfRange(Last.w, Last.base)
    /\ ~Last.note.invis
    /\ Last.err = "BadOctave"
    /\ barPos = FInt(16)

\* a dash marked three octaves up continues a note, and is accepted
C12DashAccepted ==
    /\ After("note")
    /\ Last.w = DashUp3
    /\ OctaveOutOfRange(Last.w, Last.base)
    /\ Last.note.invis
    /\ Last.err = "none"
    /\ Last.post = FAdd(Last.pre, FInt(16))

(***************************************************************************)
(* C13: the closing barline                                                *)
(***************************************************************************)
\* the part was read to its end without error
PartDone == After("end") /\ Last.err = "none" /\ pc = "done"

\* the output of the part ends with the closing barline finalize_output appends
BarlineAppended == out # <<>> /\ out[Len(out)] = FinalBar

\* a Fine or DC marker was read somewhere in the part
MarkerInPart == \E k \in 1..Steps : hist[k].op \in {"Fine", "DC"}

\* the last note, Fine or DC of the part is a note
EndsOnNote ==
    \E j \in 1..Steps :
        /\ Played(j)
        /\ \A k \in (j + 1)..Steps : hist[k].op \notin {"Fine", "DC"}

C13NoBarlineOnStaff ==
    /\ PartDone
    /\ western
    /\ ~MarkerInPart
    /\ ~BarlineAppended

(***************************************************************************)
(* collapse_tied_notes: the staff text is a sequence of words; a note or   *)
(* rest word is its pitch followed by the characters of its length         *)
(***************************************************************************)
MaxChain == 4

IsPrefix(a, b) == Len(a) <= Len(b) /\ SubSeq(b, 1, Len(a)) = a

Tie == <<"~">>
\* note_patterns: the number of notes, the dot as the pattern spells it (the
\* regular expression \. or nothing), the length of the result
EscapedDot == <<"\\", ".">>
note_patterns == << <<4, EscapedDot, <<"1", ".">> >>,
                    <<4, <<>>, <<"1">> >>,
                    <<3, <<>>, <<"2", ".">> >>,
                    <<2, EscapedDot, <<"2", ".">> >>,
                    <<2, <<>>, <<"2">> >> >>

\* the characters the regular expression dot stands for
Matched(dot) == SelectSeq(dot, LAMBDA c : c # "\\")

\* tied_note_pattern matches at word i: the first note is followed by a space, so
\* its length is exactly 4 and the dot; so are the notes followed by " ~ "; the
\* pattern ends with the last note's 4 and dot, whatever follows them in the word
TiedAt(t, i, numNotes, dot) ==
    /\ i + 2 * (numNotes - 1) <= Len(t)
    /\ Len(t[i]) > 1
    /\ Tail(t[i]) = <<"4">> \o dot
    /\ \A k \in 1..(numNotes - 1) :
          /\ t[i + 2 * k - 1] = Tie
          /\ Len(t[i + 2 * k]) > 1
          /\ Head(t[i + 2 * k]) = Head(t[i])
          /\ IF k < numNotes - 1 THEN Tail(t[i + 2 * k]) = <<"4">> \o dot
                                 ELSE IsPrefix(<<"4">> \o dot, Tail(t[i + 2 * k]))

\* what the pattern left of the word it ended in
LeftOver(w, dot) == SubSeq(w, 3 + Len(dot), Len(w))

RECURSIVE SubTied(_, _, _, _, _)
\* re.sub(tied_note_pattern, note + result, out), from word i on
SubTied(t, i, numNotes, dot, result) ==
    IF i > Len(t) THEN <<>>
    ELSE IF TiedAt(t, i, numNotes, dot)
         THEN LET last == i + 2 * (numNotes - 1)
              IN  << <<Head(t[i])>> \o result \o LeftOver(t[last], dot) >>
                  \o SubTied(t, last + 1, numNotes, dot, result)
         ELSE <<t[i]>> \o SubTied(t, i + 1, numNotes, dot, result)

\* numNotes copies of r4 and the dot, joined by spaces, start at word i
RestsAt(t, i, numNotes, dot) ==
    /\ i + numNotes - 1 <= Len(t)
    /\ \A k \in 0..(numNotes - 1) :
          /\ Head(t[i + k]) = "r"
          /\ IF k < numNotes - 1 THEN Tail(t[i + k]) = <<"4">> \o dot
                                 ELSE IsPrefix(<<"4">> \o dot, Tail(t[i + k]))

RECURSIVE SubRests(_, _, _, _, _)
\* out.replace("r4 r4 ...", "r" + result), from word i on
SubRests(t, i, numNotes, dot, result) ==
    IF i > Len(t) THEN <<>>
    ELSE IF RestsAt(t, i, numNotes, dot)
         THEN LET last == i + numNotes - 1
              IN  << <<"r">> \o result \o LeftOver(t[last], dot) >>
                  \o SubRests(t, last + 1, numNotes, dot, result)
         ELSE <<t[i]>> \o SubRests(t, i + 1, numNotes, dot, result)

RECURSIVE CollapseFrom(_, _)
\* the loop over note_patterns, from pattern k on: re.sub reads the dot as a
\* regular expression, str.replace takes it as written
CollapseFrom(t, k) ==
    IF k > Len(note_patterns) THEN t
    ELSE LET pat == note_patterns[k]
             tied == SubTied(t, 1, pat[1], Matched(pat[2]), pat[3])
         IN  CollapseFrom(SubRests(tied, 1, pat[1], pat[2], pat[3]), k + 1)

collapse_tied_notes(t) == CollapseFrom(t, 1)

\* the notes and rests a chain is drawn from: c'4 c'4. c'8 d'4 r4 r4.
ChainNotes == {<<"c'", "4">>, <<"c'", "4", ".">>, <<"c'", "8">>, <<"d'", "4">>,
               <<"r", "4">>, <<"r", "4", ".">>}

RECURSIVE Joined(_, _)
\* the words of the notes ns, a tie after note k when ties[k]
Joined(ns, ties) ==
    IF ns = <<>> THEN <<>>
    ELSE <<Head(ns)>> \o (IF Head(ties) THEN <<Tie>> ELSE <<>>)
         \o Joined(Tail(ns), Tail(ties))

\* where ties may stand among the notes ns: a tie joins two notes, never a rest,
\* and never ends the text
TiesFor(ns) ==
    {tt \in [1..Len(ns) -> BOOLEAN] :
        /\ ~tt[Len(ns)]
        /\ \A k \in 1..(Len(ns) - 1) :
              tt[k] => Head(ns[k]) # "r" /\ Head(ns[k + 1]) # "r"}

\* staff texts of up to MaxChain notes and rests
StaffTexts ==
    UNION {UNION {{Joined(ns, ties) : ties \in TiesFor(ns)} : ns \in [1..n -> ChainNotes]}
           : n \in 1..MaxChain}

InitCollapse ==
    /\ scen = "collapse"
    /\ InPass(MidiPass)
    /\ InitOneScore
    /\ headers = EmptyDict
    /\ partNo = 1
    /\ nParts = 1
    /\ scoreNo = 1
    /\ uniqCount = 0
    /\ ret_defs = <<>>
    /\ text \in StaffTexts
    /\ rewritten = Pending

\* finalize_output: if midi or western, out_str = collapse_tied_notes(out_str)
Collapse ==
    /\ scen = "collapse"
    /\ rewritten = Pending
    /\ midi \/ western
    /\ rewritten' = collapse_tied_notes(text)
    /\ UNCHANGED <<midi, western, has_lyrics, withStaff, sloppy_bars, processVars, text,
                   not_angka, noteheadVars, getLYVars, pc, err, scen, hist>>

NextCollapse == Collapse

SpecCollapse == InitCollapse /\ [][NextCollapse]_vars

(***************************************************************************)
(* C14: collapsing preserves duration                                      *)
(***************************************************************************)
\* the length of a note or rest word in units of 1/64 of a semibreve
UnitsOf(len) ==
    LET base == CASE Head(len) = "1" -> 64 [] Head(len) = "2" -> 32
                  [] Head(len) = "4" -> 16 [] Head(len) = "8" -> 8
        dots == Len(len) - 1
    IN  CASE dots = 0 -> base
          [] dots = 1 -> (base * 3) \div 2
          [] dots = 2 -> (base * 7) \div 4

RECURSIVE Duration(_)
\* the total length of the notes and rests of a text
Duration(t) ==
    IF t = <<>> THEN 0
    ELSE (IF Head(t) = Tie THEN 0 ELSE UnitsOf(Tail(Head(t)))) + Duration(Tail(t))

Collapsed == rewritten # Pending

\* C14 as stated: the collapsed text lasts as long as the text it was made from,
\* for chains of two, three and four tied notes of one pitch, plain or dotted,
\* for adjacent crotchet rests, and when the last note of a chain carries a dot.
C14DurationKept == Collapsed => Duration(rewritten) = Duration(text)

\* a crotchet tied to a dotted crotchet (40 units) becomes a dotted minim (48)
C14DottedEnd ==
    /\ text = << <<"c'", "4">>, Tie, <<"c'", "4", ".">> >>
    /\ rewritten = << <<"c'", "2", ".">> >>
    /\ Duration(text) = 40
    /\ Duration(rewritten) = 48

(***************************************************************************)
(* convert_ties_to_slurs and reformat_slurs: the score text is a sequence  *)
(* of words, each the sequence of its characters                           *)
(***************************************************************************)
MaxText == 5

SlurOpen == <<"(">>
SlurClose == <<")">>
DashWord == <<"-">>
ProtectedTie == <<"__TIE__">>
IsSlurMark(w) == w \in {SlurOpen, SlurClose}

\* ([1-7][',]*)+ : a figure, then figures and octave marks
FiguresAndMarks(w) ==
    /\ w # <<>>
    /\ Head(w) \in {"1", "2", "3", "4", "5", "6", "7"}
    /\ \A k \in 1..Len(w) : w[k] \in {"1", "2", "3", "4", "5", "6", "7", "'", ","}

\* note_pattern matches the whole of w: [qshb]?([1-7][',]*)+\.?
MatchesNote(w) ==
    LET undotted == IF w # <<>> /\ w[Len(w)] = "." THEN DropLast(w) ELSE w
        bare == IF undotted # <<>> /\ Head(undotted) \in {"q", "s", "h", "b"}
                THEN Tail(undotted) ELSE undotted
    IN  FiguresAndMarks(bare)

\* the search may start inside the first word of a chain: note_pattern matches
\* some end of w
EndsAsNote(w) == \E k \in 1..Len(w) : MatchesNote(SubSeq(w, k, Len(w)))

RECURSIVE RunEnd(_, _)
\* (\s+-)* : the last word of the run of dashes that follows word j
RunEnd(t, j) == IF j + 1 <= Len(t) /\ t[j + 1] = DashWord THEN RunEnd(t, j + 1) ELSE j

RECURSIVE ChainEnd(_, _)
\* (tie_pattern note_pattern dashes)+ , as far as it goes after word j
ChainEnd(t, j) ==
    IF j + 2 <= Len(t) /\ t[j + 1] = Tie /\ MatchesNote(t[j + 2])
    THEN ChainEnd(t, RunEnd(t, j + 2))
    ELSE j

\* combined_tie_pattern matches from word i on
ChainAt(t, i) == EndsAsNote(t[i]) /\ ChainEnd(t, RunEnd(t, i)) > RunEnd(t, i)

\* tied_note_sequence_pattern: the tie at k stands between a ( and a ) with no
\* other slur mark between them
TieInSlur(t, k) ==
    /\ t[k] = Tie
    /\ \E i \in 1..(k - 1) : \E j \in (k + 1)..Len(t) :
          /\ t[i] = SlurOpen
          /\ t[j] = SlurClose
          /\ \A m \in (i + 1)..(j - 1) : ~IsSlurMark(t[m])

protect_ties_in_slurs(t) ==
    [k \in 1..Len(t) |-> IF TieInSlur(t, k) THEN ProtectedTie ELSE t[k]]

RECURSIVE DashesFrom(_, _)
\* the end of the run of dashes that starts at word i
DashesFrom(c, i) == IF i + 1 <= Len(c) /\ c[i + 1] = DashWord THEN DashesFrom(c, i + 1) ELSE i

RECURSIVE MarksAsPlaced(_, _)
\* a faulty variant: the slur marks stay where the slur was built
MarksAsPlaced(c, i) == IF i > Len(c) THEN <<>> ELSE <<c[i]>> \o MarksAsPlaced(c, i + 1)

RECURSIVE MarksBeforeDashes(_, _)
\* "Move parenthesis before dashes": a run of dashes followed by a slur mark
\* becomes the mark followed by the run; from word i on
MarksBeforeDashes(c, i) ==
    IF i > Len(c) THEN <<>>
    ELSE IF c[i] = DashWord /\ i > 1 /\ DashesFrom(c, i) < Len(c)
            /\ IsSlurMark(c[DashesFrom(c, i) + 1])
         THEN LET e == DashesFrom(c, i)
              IN  <<c[e + 1]>> \o SubSeq(c, i, e) \o MarksBeforeDashes(c, e + 2)
         ELSE <<c[i]>> \o MarksBeforeDashes(c, i + 1)

\* slur_replacement: the words m of one match; parts[0] ( parts[1:] ), the tie
\* words dropped, then the marks moved before dashes
slur_replacement(m) ==
    LET first == RunEnd(m, 1)
        rest == SelectSeq(SubSeq(m, first + 1, Len(m)), LAMBDA w : w # Tie)
    IN  MarksBeforeDashes(SubSeq(m, 1, first) \o <<SlurOpen>> \o rest \o <<SlurClose>>, 1)

RECURSIVE SubChains(_, _)
\* re.sub(combined_tie_pattern, slur_replacement, jianpu), from word i on
SubChains(t, i) ==
    IF i > Len(t) THEN <<>>
    ELSE IF ChainAt(t, i)
         THEN LET e == ChainEnd(t, RunEnd(t, i))
              IN  slur_replacement(SubSeq(t, i, e)) \o SubChains(t, e + 1)
         ELSE <<t[i]>> \o SubChains(t, i + 1)

convert_ties_to_slurs(t) ==
    LET converted == SubChains(protect_ties_in_slurs(t), 1)
    IN  [k \in 1..Len(converted) |->
            IF converted[k] = ProtectedTie THEN Tie ELSE converted[k]]

RECURSIVE MarksAfterDashes(_, _)
\* the pattern of reformat_slurs: a slur mark after white space, followed by a
\* run of dashes, becomes the run followed by the mark; from word i on
MarksAfterDashes(t, i) ==
    IF i > Len(t) THEN <<>>
    ELSE IF IsSlurMark(t[i]) /\ i > 1 /\ RunEnd(t, i) > i
         THEN LET e == RunEnd(t, i)
              IN  SubSeq(t, i + 1, e) \o <<t[i]>> \o MarksAfterDashes(t, e + 1)
         ELSE <<t[i]>> \o MarksAfterDashes(t, i + 1)

\* a faulty variant: the slur marks stay where they are
reformat_slursUnmoved(t) == t

reformat_slurs(t) == MarksAfterDashes(t, 1)

\* the words of a score text: 1 #1 q1 ~ ( ) -
NoteWords == {<<"1">>, <<"#", "1">>, <<"q", "1">>}
ScoreWords == NoteWords \cup {Tie, SlurOpen, SlurClose, DashWord}

\* score texts of up to MaxText words that start with a note
ScoreTexts ==
    UNION {{t \in [1..n -> ScoreWords] : t[1] \in NoteWords} : n \in 1..MaxText}

InitSlurs ==
    /\ scen = "slurs"
    /\ \E p \in {NotationPass, MidiPass, WesternPass} : InPass(p)
    /\ InitOneScore
    /\ headers = EmptyDict
    /\ partNo = 1
    /\ nParts = 1
    /\ scoreNo = 1
    /\ uniqCount = 0
    /\ ret_defs = <<>>
    /\ text \in ScoreTexts
    /\ rewritten = Pending

SlurFrame == <<midi, western, has_lyrics, withStaff, sloppy_bars, processVars, text,
               not_angka, noteheadVars, getLYVars, pc, err, scen, hist>>

\* getLY, if not midi: score = convert_ties_to_slurs(score)
ConvertTies ==
    /\ scen = "slurs"
    /\ rewritten = Pending
    /\ ~getLY_midi
    /\ rewritten' = convert_ties_to_slurs(text)
    /\ UNCHANGED SlurFrame

\* getLY, else: score = reformat_slurs(score)
ReformatSlurs ==
    /\ scen = "slurs"
    /\ rewritten = Pending
    /\ getLY_midi
    /\ rewritten' = reformat_slurs(text)
    /\ UNCHANGED SlurFrame

NextSlurs == ConvertTies \/ ReformatSlurs

SpecSlurs == InitSlurs /\ [][NextSlurs]_vars

(***************************************************************************)
(* C15: tie chains become slurs in the notation pass                       *)
(***************************************************************************)
Rewritten == scen = "slurs" /\ rewritten # Pending

CountOf(t, w) == Cardinality({k \in 1..Len(t) : t[k] = w})

\* a word that writes a note: it ends with a figure 1-7, its octave marks and dots
WritesNote(w) == \E k \in 1..Len(w) : w[k] \in {"1", "2", "3", "4", "5", "6", "7"}

RECURSIVE HeldNote(_, _)
\* the note word that word k follows, any dashes between skipped; 0 when none
HeldNote(t, k) ==
    IF k <= 1 THEN 0
    ELSE IF t[k - 1] = DashWord THEN HeldNote(t, k - 1)
    ELSE IF WritesNote(t[k - 1]) THEN k - 1
    ELSE 0

\* the tie at k joins two notes (the first may be held by dashes) and is not
\* inside an explicit slur
ChainTie(t, k) ==
    /\ t[k] = Tie
    /\ ~TieInSlur(t, k)
    /\ HeldNote(t, k) > 0
    /\ k < Len(t)
    /\ WritesNote(t[k + 1])

\* the tie at k opens a chain: no chain tie joins the note before it to an
\* earlier one
OpensChain(t, k) ==
    /\ ChainTie(t, k)
    /\ ~(HeldNote(t, k) > 1 /\ ChainTie(t, HeldNote(t, k) - 1))

\* C15 as stated: in the notation pass every chain of ties that is not inside an
\* explicit slur becomes one slur and its tie words are removed, whatever the
\* accidentals and length codes of its notes; a tie inside ( ... ) stays a tie.
C15ChainsBecomeSlurs ==
    Rewritten /\ notation =>
        /\ CountOf(rewritten, Tie)
             = Cardinality({k \in 1..Len(text) : text[k] = Tie /\ ~ChainTie(text, k)})
        /\ CountOf(rewritten, SlurOpen)
             = CountOf(text, SlurOpen)
               + Cardinality({k \in 1..Len(text) : OpensChain(text, k)})
        /\ \A k \in 1..Len(text) : TieInSlur(text, k) => CountOf(rewritten, Tie) > 0

\* a note tied to the same note written with its sharp is left as a tie
C15SharpKeepsTie ==
    /\ Rewritten
    /\ notation
    /\ text = << <<"#", "1">>, Tie, <<"#", "1">> >>
    /\ rewritten = text

(***************************************************************************)
(* C16: where the slur marks go when notes of the chain are held by dashes *)
(***************************************************************************)
\* the chain held by dashes: a text without slur marks that the pass rewrote
\* into a slur
DashedChain ==
    /\ Rewritten
    /\ notation
    /\ CountOf(text, SlurOpen) = 0
    /\ CountOf(text, SlurClose) = 0

\* C16 as stated: when a tie chain becomes a slur and a note is followed by
\* dashes, the slur mark is placed after the note's trailing dashes.
C16MarkAfterDashes ==
    DashedChain =>
        \A k \in 1..(Len(rewritten) - 1) :
            IsSlurMark(rewritten[k]) => rewritten[k + 1] # DashWord

\* C16 as the code has it: the slur mark is placed directly after the note,
\* before the note's trailing dashes, and every dash is kept.
C16MarkBeforeDashes ==
    DashedChain =>
        /\ \A k \in 1..Len(rewritten) :
              IsSlurMark(rewritten[k]) => k > 1 /\ WritesNote(rewritten[k - 1])
        /\ CountOf(rewritten, DashWord) = CountOf(text, DashWord)
        /\ CountOf(rewritten, SlurOpen) = CountOf(rewritten, SlurClose)

\* 1 - ~ 1 - becomes 1 ( - 1 ) -
C16Witness ==
    /\ DashedChain
    /\ text = << <<"1">>, DashWord, Tie, <<"1">>, DashWord >>
    /\ rewritten = << <<"1">>, SlurOpen, DashWord, <<"1">>, SlurClose, DashWord >>

(***************************************************************************)
(* C17: the audio and auxiliary-staff passes                               *)
(***************************************************************************)
WithoutMarks(t) == SelectSeq(t, LAMBDA w : ~IsSlurMark(w))

\* the slur mark at i directly precedes a run of dashes
MarkBeforeRun(t, i) == IsSlurMark(t[i]) /\ i < Len(t) /\ t[i + 1] = DashWord

\* C17: in the audio and auxiliary-staff passes no tie becomes a slur: the words
\* other than slur marks, the ties among them, are the same in the same order,
\* and there are as many marks of each kind as before; and every slur mark that
\* directly precedes a run of dashes directly follows that run afterwards.
C17MarksFollowDashes ==
    Rewritten /\ getLY_midi =>
        /\ WithoutMarks(rewritten) = WithoutMarks(text)
        /\ CountOf(rewritten, SlurOpen) = CountOf(text, SlurOpen)
        /\ CountOf(rewritten, SlurClose) = CountOf(text, SlurClose)
        /\ Len(rewritten) = Len(text)
        /\ \A i \in 1..Len(text) :
              MarkBeforeRun(text, i) =>
                  /\ rewritten[RunEnd(text, i)] = text[i]
                  /\ \A k \in i..(RunEnd(text, i) - 1) : rewritten[k] = DashWord

\* the auxiliary-staff pass: a tie is kept and the ( before two dashes follows them
C17Witness ==
    /\ Rewritten
    /\ western
    /\ text = << <<"1">>, SlurOpen, DashWord, DashWord, Tie >>
    /\ rewritten = << <<"1">>, DashWord, DashWord, SlurOpen, Tie >>

(***************************************************************************)
(* C18: the tremolo marker                                                 *)
(***************************************************************************)
\* the word read last carries /// and was accepted
TremoloPlayed == After("note") /\ Last.err = "none" /\ Last.w.tremolo

\* C18 as stated: a word with /// gives a fragment that differs from the
\* fragment of the same word without it: the one with the hatch markup in the
\* notation pass, with the tremolo (for a chord of two notes the alternation
\* counted from the length before the tuplet) in the other passes.
C18TremoloRendered ==
    TremoloPlayed =>
        /\ Last.note.ret # Last.note.plain
        /\ out[Len(out)] = Last.note.ret
        /\ \E k \in 1..Len(Last.note.ret) :
              Last.note.ret[k] \in {"\\markup \\postscript", ":32", "\\repeat tremolo"}

\* a chord of two notes with /// in the audio pass: the fragment written is that
\* of the chord without ///, and the alternation of four was computed and dropped
C18TremoloDropped ==
    /\ TremoloPlayed
    /\ midi
    /\ Last.w = Tremolo(Chord13plain)
    /\ Last.note.tremolo_result = <<"\\repeat tremolo", "4">>
    /\ out[Len(out)] = Last.note.plain

(***************************************************************************)
(* C19: notes after angka                                                  *)
(***************************************************************************)
\* angka (or Indonesian) was read before the word read last
AngkaRead == \E k \in 1..(Steps - 1) : hist[k].op = "angka"

\* the word read last is a plain note, 1 or q1, of a part in which only
\* KeepLength, angka, a key, notes and dashes occur
PlainNoteRead == scen = "directives" /\ After("note") /\ Last.w \in {N1, Nq1}

\* the note read last was accepted and moved the bar position on by its length,
\* or was refused by the bar check and by nothing else
PlayedOrBarcheck ==
    /\ Last.err \in {"none", "BarcheckFail"}
    /\ Last.err = "none" =>
          /\ Last.note.pos = FAdd(Last.pre, Last.note.toAdd)
          /\ Last.post = (IF Last.note.completed THEN FZero ELSE Last.note.pos)
          /\ barPos = Last.post

\* C19 as stated: after angka a note word is processed as before it, with the
\* same bar accounting; the directive changes the styling only.
C19AngkaNotesPlay == PlainNoteRead => PlayedOrBarcheck

\* the same, for the words read while angka is not in force
C19NotesPlayBeforeAngka == PlainNoteRead /\ ~AngkaRead => PlayedOrBarcheck

\* the note 1 read after angka is refused with a KeyError
C19KeyErrorAfterAngka ==
    /\ PlainNoteRead
    /\ AngkaRead
    /\ Last.w = N1
    /\ Last.err = "KeyError"
    /\ pc = "failed"
    /\ barPos = Last.pre

(***************************************************************************)
(* parseNote: a word is the sequence of its characters                     *)
(***************************************************************************)
MaxWordLen == 3

FigureChars == {"-", "0", "1", "2", "3", "4", "5", "6", "7"}
LengthChars == {"c", "q", "s", "d", "h", "\\"}
\* the characters of [0-7.,'cqsdh\\#b-]
NoteChars == FigureChars \cup LengthChars \cup {".", ",", "'", "#", "b"}

RECURSIVE Expand89(_)
\* word.replace("8", "1'").replace("9", "2'")
Expand89(word) ==
    IF word = <<>> THEN <<>>
    ELSE (CASE Head(word) = "8" -> <<"1", "'">>
            [] Head(word) = "9" -> <<"2", "'">>
            [] OTHER -> <<Head(word)>>) \o Expand89(Tail(word))

\* the first place where /// stands in word; 0 when nowhere
TremoloAt(word) ==
    LET at == {k \in 1..(Len(word) - 2) : SubSeq(word, k, k + 2) = <<"/", "/", "/">>}
    IN  IF at = {} THEN 0 ELSE CHOOSE k \in at : \A m \in at : k <= m

\* word.replace("///", "", 1)
WithoutTremolo(word) ==
    IF TremoloAt(word) = 0 THEN word
    ELSE SubSeq(word, 1, TremoloAt(word) - 1) \o SubSeq(word, TremoloAt(word) + 3, Len(word))

RECURSIVE SpanOf(_, _, _)
\* the last place of the run of characters of cls that starts at place i of word
\* (i - 1 when the run is empty)
SpanOf(word, i, cls) ==
    IF i <= Len(word) /\ word[i] \in cls THEN SpanOf(word, i + 1, cls) ELSE i - 1

RECURSIVE FindNotes(_, _)
\* re.findall(r"[#b]*[-0-7][',]*", word), from place i on
FindNotes(word, i) ==
    IF i > Len(word) THEN <<>>
    ELSE LET f == SpanOf(word, i, {"#", "b"}) + 1
         IN  IF f <= Len(word) /\ word[f] \in FigureChars
             THEN LET e == SpanOf(word, f + 1, {"'", ","})
                  IN  <<SubSeq(word, i, e)>> \o FindNotes(word, e + 1)
             ELSE FindNotes(word, i + 1)

Strip(note, cls) == SelectSeq(note, LAMBDA c : c \notin cls)

\* list("cqsdh").index(nBeams)
BeamIndex(letters) ==
    CASE letters = <<"c">> -> 0 [] letters = <<"q">> -> 1 [] letters = <<"s">> -> 2
      [] letters = <<"d">> -> 3 [] letters = <<"h">> -> 4 [] OTHER -> None

\* parseNote: the error, or (figures, nBeams, dots, octaves, accidentals, tremolo)
parseNote(word0) ==
    LET word1 == Expand89(IF word0 = <<".">> THEN <<"-">> ELSE word0)
        tremolo == TremoloAt(word1) # 0
        word == WithoutTremolo(word1)
        notes == FindNotes(word, 1)
        letters == SelectSeq(word, LAMBDA c : c \in LengthChars)
        slashes == letters # <<>> /\ \A k \in 1..Len(letters) : letters[k] = "\\"
    IN  IF word = <<>> \/ \E k \in 1..Len(word) : word[k] \notin NoteChars
        THEN [err |-> "Unrecognised"]
        ELSE IF letters # <<>> /\ ~slashes /\ BeamIndex(letters) = None
        THEN [err |-> "BadBeams"]
        ELSE [err |-> "none",
              figures |-> [k \in 1..Len(notes) |-> Strip(notes[k], {"#", "b", "'", ","})],
              accidentals |-> [k \in 1..Len(notes) |->
                                  Strip(notes[k], FigureChars \cup {"'", ","})],
              octaves |-> [k \in 1..Len(notes) |->
                              Strip(notes[k], {"#", "b"} \cup (FigureChars \ {"-"}))],
              dots |-> Len(SelectSeq(word, LAMBDA c : c = ".")),
              nBeams |-> IF slashes THEN Len(letters)
                         ELSE IF letters # <<>> THEN BeamIndex(letters) ELSE None,
              tremolo |-> tremolo]

\* the characters words are made of here: figures, a length letter, an
\* accidental, a dot, an octave mark, the tremolo stroke, 8, and a letter the
\* parser does not know
WordChars == {"1", "0", "-", "q", "c", "#", ".", "'", "/", "8", "x"}

Words == UNION {[1..n -> WordChars] : n \in 1..MaxWordLen}

InitParse ==
    /\ scen = "parse"
    /\ \E p \in {NotationPass, MidiPass} : InPass(p)
    /\ InitOneScore
    /\ headers = EmptyDict
    /\ partNo = 1
    /\ nParts = 1
    /\ scoreNo = 1
    /\ uniqCount = 0
    /\ ret_defs = <<>>
    /\ text \in {<<w>> : w \in Words}
    /\ rewritten = Pending

\* process_note: figures, nBeams, dots, octaves, accidentals, tremolo =
\* parseNote(word, word0, line)
ParseWord ==
    /\ scen = "parse"
    /\ pc = "words"
    /\ LET parsed == parseNote(text[1])
       IN  /\ hist' = <<[op |-> "parse", err |-> parsed.err, parsed |-> parsed]>>
           /\ err' = parsed.err
           /\ pc' = IF parsed.err = "none" THEN "parsed" ELSE "failed"
           /\ need_final_barline' = (parsed.err = "none")
    /\ UNCHANGED <<optionVars, not_angka, noteheadVars, out, lastPtr, repeatStack,
                   escaping, inTranspose, graceVars, scen>>

NextParse == ParseWord

SpecParse == InitParse /\ [][NextParse]_vars

(***************************************************************************)
(* C20: what the word parser returns                                       *)
(***************************************************************************)
Parsed == scen = "parse" /\ hist # <<>>

\* C20 as stated: every word is refused as an unrecognised command or for its
\* length letters, or gives at least one figure with as many accidentals and
\* octaves as figures; no accepted word gives an empty list of figures.
C20FigureOrRefused ==
    Parsed =>
        \/ Last.err \in {"Unrecognised", "BadBeams"}
        \/ /\ Last.err = "none"
           /\ Len(Last.parsed.figures) >= 1
           /\ Len(Last.parsed.accidentals) = Len(Last.parsed.figures)
           /\ Len(Last.parsed.octaves) = Len(Last.parsed.figures)

\* the word q is accepted and has no figure
C20NoFigure ==
    /\ Parsed
    /\ text = << <<"q">> >>
    /\ Last.err = "none"
    /\ Last.parsed.figures = <<>>
    /\ Last.parsed.nBeams = 1

(***************************************************************************)
(* getLY: grace notes                                                      *)
(***************************************************************************)
\* the markup-command definitions and the markups that use them
jianpuGraceDefinition == "#(define-markup-command (jianpu-grace"
jianpuGraceAfterDefinition == "#(define-markup-command (jianpu-grace-after"
jianpuGraceMarkup == "\\markup \\jianpu-grace"
jianpuGraceAfterMarkup == "\\markup \\jianpu-grace-after"

RECURSIVE PadTupletBracket(_, _)
\* for i in range(1, 4): if r"\times" in out[-i]: out[-i] = "\once \override
\* TupletBracket.padding = #2.5 " + out[-i]; break.  out[-i] raises IndexError
\* when out has fewer than i fragments
PadTupletBracket(o, i) ==
    IF i > 3 THEN [err |-> "none", out |-> o]
    ELSE IF i > Len(o) THEN [err |-> "IndexError", out |-> o]
    ELSE IF Contains(o[Len(o) - i + 1], "\\times")
         THEN [err |-> "none",
               out |-> [o EXCEPT ![Len(o) - i + 1] = <<"\\once \\override TupletBracket">> \o @]]
    ELSE PadTupletBracket(o, i + 1)

\* a faulty variant: the definition is emitted with every grace note
GraceDefinitionAlways(defined, definition) == <<definition>>

\* if not defined_jianpuGrace / if not defined_JGR: the definition, once per call
\* of getLY
GraceDefinition(defined, definition) == IF defined THEN <<>> ELSE <<definition>>

\* g[...] : process_grace_notes
GraceBefore(w) ==
    /\ Reading(w, "g[")
    /\ IF getLY_midi \/ western
       THEN /\ out' = Append(out, <<"\\acciaccatura">>)
            /\ hist' = Append(hist, Obs("g[", w, "none", barPos, barLength, NoNote))
            /\ UNCHANGED <<BracketFrame, barPos, repeatStack>>
       ELSE LET padded == IF tuplet # <<1, 1>> THEN PadTupletBracket(out, 1)
                          ELSE [err |-> "none", out |-> out]
                definition == GraceDefinition(defined_jianpuGrace, jianpuGraceDefinition)
            IN  IF padded.err # "none"
                THEN Fail("g[", w, padded.err, NoNote)
                ELSE /\ out' = padded.out \o Opt(~withStaff, <<"\\once \\textLengthOn">>)
                                          \o Opt(definition # <<>>, definition)
                     /\ afternext' = <<jianpuGraceMarkup>>
                     /\ defined_jianpuGrace' = TRUE
                     /\ hist' = Append(hist, Obs("g[", w, "none", barPos, barLength, NoNote))
                     /\ UNCHANGED <<optionVars, not_angka, noteheadVars, lastPtr,
                                    repeatStack, escaping, inTranspose,
                                    need_final_barline, defined_JGR, pc, err, scen>>

\* [...]g : process_grace_notes_after.  out[lastPtr] is the fragment lastPtr + 1
\* here, and raises IndexError when there is none
GraceAfter(w) ==
    /\ Reading(w, "]g")
    /\ IF getLY_midi \/ western
       THEN IF lastPtr + 1 > Len(out)
            THEN Fail("]g", w, "IndexError", NoNote)
            ELSE /\ out' = [out EXCEPT ![lastPtr + 1] =
                                <<"\\afterGrace">> \o @ \o <<"grace notes">>]
                 /\ hist' = Append(hist, Obs("]g", w, "none", barPos, barLength, NoNote))
                 /\ UNCHANGED <<BracketFrame, barPos, repeatStack>>
       ELSE LET padded == IF tuplet # <<1, 1>> THEN PadTupletBracket(out, 1)
                          ELSE [err |-> "none", out |-> out]
                out1 == IF withStaff THEN padded.out
                        ELSE [padded.out EXCEPT ![lastPtr + 1] =
                                  <<"\\once \\textLengthOn">> \o @]
                out2 == PyInsert(out1, lastPtr + 1, <<jianpuGraceAfterMarkup>>)
                definition == GraceDefinition(defined_JGR, jianpuGraceAfterDefinition)
            IN  IF padded.err # "none"
                THEN Fail("]g", w, padded.err, NoNote)
                ELSE IF ~withStaff /\ lastPtr + 1 > Len(padded.out)
                THEN Fail("]g", w, "IndexError", NoNote)
                ELSE /\ out' = IF definition = <<>> THEN out2
                               ELSE [out2 EXCEPT ![lastPtr + 1] = definition \o @]
                     /\ defined_JGR' = TRUE
                     /\ hist' = Append(hist, Obs("]g", w, "none", barPos, barLength, NoNote))
                     /\ UNCHANGED <<optionVars, not_angka, noteheadVars, lastPtr,
                                    repeatStack, escaping, inTranspose,
                                    need_final_barline, afternext, defined_jianpuGrace,
                                    pc, err, scen>>

(***************************************************************************)
(* process_input: the scores of a document and the passes over each score  *)
(* (one part per score)                                                    *)
(***************************************************************************)
MaxScores == 2

\* a faulty variant: the flag set by angka is never cleared
not_angkaKept(prev, mid, wes) == prev

\* not_angka when getLY is called for the pass (mid, wes), prev being its value
\* after the call before: "for midi in [False, True]: not_angka = False" clears
\* it for the notation and the audio pass; the auxiliary-staff pass runs inside
\* the notation iteration
not_angkaAtPass(prev, mid, wes) == IF wes THEN prev ELSE FALSE

\* the pass and score that follow the pass (mid, wes) of score no
PassAfter(mid, wes, staff, no) ==
    IF ~mid /\ ~wes
    THEN (IF staff THEN [midi |-> FALSE, western |-> TRUE, scoreNo |-> no]
          ELSE [midi |-> TRUE, western |-> FALSE, scoreNo |-> no])
    ELSE IF wes THEN [midi |-> TRUE, western |-> FALSE, scoreNo |-> no]
    ELSE [midi |-> FALSE, western |-> FALSE, scoreNo |-> no + 1]

\* the markup-command definitions in the fragments of a staff
DefinitionsIn(o) ==
    SelectSeq(Concat(o),
              LAMBDA tok : tok \in {jianpuGraceDefinition, jianpuGraceAfterDefinition})

InitScores ==
    /\ scen = "scores"
    /\ midi = FALSE
    /\ western = FALSE
    /\ has_lyrics = FALSE
    /\ withStaff \in BOOLEAN
    /\ sloppy_bars = FALSE
    /\ InitOneScore
    /\ NoScore

\* process_input between two calls of getLY: the staff of the part that was read
\* takes a name from unique_name, the loops move on to the next pass or score,
\* and getLY starts with initOneScore and fresh locals. defines_done is set in
\* NoteheadMarkup.__init__ only, uniqCount before the loop over the scores only
NextGetLY ==
    /\ scen = "scores"
    /\ pc = "done"
    /\ ret_defs' = ret_defs \o DefinitionsIn(out)
    /\ LET nxt == PassAfter(midi, western, withStaff, scoreNo)
       IN  /\ nxt.scoreNo <= MaxScores
           /\ midi' = nxt.midi
           /\ western' = nxt.western
           /\ scoreNo' = nxt.scoreNo
           /\ not_angka' = not_angkaAtPass(not_angka, nxt.midi, nxt.western)
    /\ uniqCount' = uniqCount + 1
    /\ barLength' = 64
    /\ beatLength' = 16
    /\ barPos' = FZero
    /\ startBarPos' = FZero
    /\ inBeamGroup' = 0
    /\ lastNBeams' = 0
    /\ keepLength' = 0
    /\ last_figures' = <<>>
    /\ last_octaves' = <<>>
    /\ last_accidentals' = <<>>
    /\ base_octave' = <<>>
    /\ current_accidentals' = EmptyDict
    /\ barNo' = 1
    /\ tuplet' = <<1, 1>>
    /\ last_was_rest' = FALSE
    /\ out' = <<>>
    /\ lastPtr' = 0
    /\ repeatStack' = <<>>
    /\ escaping' = 0
    /\ inTranspose' = 0
    /\ need_final_barline' = FALSE
    /\ afternext' = <<>>
    /\ defined_jianpuGrace' = FALSE
    /\ defined_JGR' = FALSE
    /\ pc' = "words"
    /\ hist' = <<>>
    /\ UNCHANGED <<has_lyrics, withStaff, sloppy_bars, headers, partNo, nParts, textVars,
                   defines_done, err, scen>>

NextScores ==
    \/ \E w \in NextWords : ProcessNote(w)
    \/ \E w \in NextWords : ProcessTimeSignature(w)
    \/ \E w \in NextWords : KeepLengthWord(w)
    \/ \E w \in NextWords : Angka(w)
    \/ \E w \in NextWords : GraceBefore(w)
    \/ \E w \in NextWords : GraceAfter(w)
    \/ EndPart
    \/ NextGetLY

SpecScores == InitScores /\ [][NextScores]_vars

(***************************************************************************)
(* C21: the state at the start of a pass or score                          *)
(***************************************************************************)
\* getLY has just been called
CallStart == scen = "scores" /\ pc = "words" /\ hist = <<>>

\* the fields initOneScore sets and the locals of getLY have their first values
ScoreStateFresh ==
    /\ barLength = 64 /\ beatLength = 16 /\ barPos = FZero /\ startBarPos = FZero
    /\ inBeamGroup = 0 /\ lastNBeams = 0 /\ keepLength = 0
    /\ last_figures = <<>> /\ last_octaves = <<>> /\ last_accidentals = <<>>
    /\ base_octave = <<>> /\ current_accidentals = EmptyDict /\ barNo = 1
    /\ tuplet = <<1, 1>> /\ last_was_rest = FALSE
    /\ out = <<>> /\ lastPtr = 0 /\ repeatStack = <<>> /\ escaping = 0
    /\ inTranspose = 0 /\ need_final_barline = FALSE
    /\ afternext = <<>> /\ ~defined_jianpuGrace /\ ~defined_JGR

C21AngkaOnStaff == CallStart /\ western /\ not_angka

(***************************************************************************)
(* C22: the markup-command definitions of the grace notes                  *)
(***************************************************************************)
\* how often the token tok stands in the sequence of tokens toks
Times(toks, tok) == Cardinality({i \in 1..Len(toks) : toks[i] = tok})

\* in the fragments o every markup use stands after the definition def
DefinedBeforeUse(o, def, use) ==
    LET toks == Concat(o)
    IN  \A j \in 1..Len(toks) : toks[j] = use => \E i \in 1..(j - 1) : toks[i] = def

\* the definitions in the document so far: the staves appended and the part
\* being read
InDocument == ret_defs \o DefinitionsIn(out)

\* C22 as stated: each of the two definitions is emitted at most once per
\* document in the notation pass, however many parts and scores have grace
\* notes, and before or at the first grace note that uses it.
C22OncePerDocument ==
    scen = "scores" =>
        /\ Times(InDocument, jianpuGraceDefinition) <= 1
        /\ Times(InDocument, jianpuGraceAfterDefinition) <= 1
        /\ DefinedBeforeUse(out, jianpuGraceDefinition, jianpuGraceMarkup)
        /\ DefinedBeforeUse(out, jianpuGraceAfterDefinition, jianpuGraceAfterMarkup)

\* C22, amended: each of the two definitions is emitted at most once per part
\* (per call of getLY) in the notation pass, before the first grace note of the
\* part that uses it, and never in the other passes; a document holds it once
\* for every part that has such a grace note.
C22OncePerPart ==
    scen = "scores" =>
        /\ Times(DefinitionsIn(out), jianpuGraceDefinition) <= 1
        /\ Times(DefinitionsIn(out), jianpuGraceAfterDefinition) <= 1
        /\ DefinedBeforeUse(out, jianpuGraceDefinition, jianpuGraceMarkup)
        /\ DefinedBeforeUse(out, jianpuGraceAfterDefinition, jianpuGraceAfterMarkup)
        /\ (~notation => DefinitionsIn(out) = <<>>)
        /\ Times(ret_defs, jianpuGraceDefinition) <= scoreNo
        /\ Times(ret_defs, jianpuGraceAfterDefinition) <= scoreNo

\* the second score emits the definition the first score has emitted, before
\* the markup that uses it
C22Witness ==
    /\ scen = "scores"
    /\ scoreNo = 2
    /\ notation
    /\ Times(ret_defs, jianpuGraceDefinition) = 1
    /\ Times(DefinitionsIn(out), jianpuGraceDefinition) = 1
    /\ Times(Concat(out), jianpuGraceMarkup) = 1

(***************************************************************************)
(* getLY: a part that holds an LP: block.  The part is a sequence of       *)
(* lines, a line a sequence of words                                       *)
(***************************************************************************)
MaxLineWords == 3

RECURSIVE remove_comments(_)
\* re.sub(r"%.*$", "", jianpu, flags=re.MULTILINE) on one line: the line up to
\* its first %, which may stand inside a word
remove_comments(line) ==
    IF line = <<>> THEN <<>>
    ELSE IF Contains(Head(line), "%")
         THEN LET w == Head(line)
                  at == CHOOSE k \in 1..Len(w) :
                            w[k] = "%" /\ \A m \in 1..(k - 1) : w[m] # "%"
              IN  IF at = 1 THEN <<>> ELSE <<SubSeq(w, 1, at - 1)>>
    ELSE <<Head(line)>> \o remove_comments(Tail(line))

\* getLY, before it reads any line: score = convert_ties_to_slurs(score) if not
\* midi else reformat_slurs(score); both remove the comments first
RewriteLine(line, m) ==
    IF m THEN reformat_slurs(remove_comments(line))
    ELSE convert_ties_to_slurs(remove_comments(line))

LPLine == << <<"LP:">> >>
EndLPLine == << <<":LP">> >>

\* what stands on the line inside the block: a note, a tie, a comment, a word with a
\* percent sign in it, a header assignment, a lyric line
BlockWords == {<<"1">>, Tie, <<"%">>, <<"\\mark", "%", "x">>, <<"title=x">>, <<"L:">>}
BlockLines == UNION {[1..n -> BlockWords] : n \in 1..MaxLineWords}

InitBlock ==
    /\ scen = "block"
    /\ \E p \in {NotationPass, MidiPass, WesternPass} : InPass(p)
    /\ InitOneScore
    /\ headers = EmptyDict
    /\ partNo = 1
    /\ nParts = 1
    /\ scoreNo = 1
    /\ uniqCount = 0
    /\ ret_defs = <<>>
    /\ text \in {<<LPLine, line, EndLPLine>> : line \in BlockLines}
    /\ rewritten = <<>>

BlockFrame == <<optionVars, not_angka, noteheadVars, lastPtr, repeatStack, inTranspose,
                need_final_barline, graceVars, pc, err, scen>>

\* the line getLY reads next
LineNo == Len(hist) + 1

LineObs(op) == [op |-> op, written |-> text[LineNo], line |-> rewritten[LineNo]]

\* getLY: the text pass before the loop over the lines
RewriteScore ==
    /\ scen = "block"
    /\ pc = "words"
    /\ rewritten = <<>>
    /\ rewritten' = [k \in 1..Len(text) |-> RewriteLine(text[k], getLY_midi)]
    /\ UNCHANGED <<midi, western, has_lyrics, withStaff, sloppy_bars, processVars, text,
                   not_angka, noteheadVars, getLYVars, pc, err, scen, hist>>

ReadingLine == scen = "block" /\ pc = "words" /\ rewritten # <<>> /\ LineNo <= Len(rewritten)

\* if line.startswith("LP:"): escaping = 1, and the rest of the line is appended
ReadLP ==
    /\ ReadingLine
    /\ Len(rewritten[LineNo]) > 0
    /\ Head(rewritten[LineNo]) = <<"LP:">>
    /\ escaping' = 1
    /\ out' = IF Len(rewritten[LineNo]) > 1 THEN Append(out, Tail(rewritten[LineNo]))
              ELSE out
    /\ hist' = Append(hist, LineObs("LP:"))
    /\ UNCHANGED BlockFrame

\* elif line.startswith(":LP"): escaping = 0
ReadEndLP ==
    /\ ReadingLine
    /\ Len(rewritten[LineNo]) > 0
    /\ Head(rewritten[LineNo]) = <<":LP">>
    /\ escaping' = 0
    /\ hist' = Append(hist, LineObs(":LP"))
    /\ UNCHANGED <<BlockFrame, out>>

\* elif escaping: out.append(line + "\n")
ReadEscaped ==
    /\ ReadingLine
    /\ escaping = 1
    /\ IF Len(rewritten[LineNo]) = 0 THEN TRUE
       ELSE Head(rewritten[LineNo]) \notin {<<"LP:">>, <<":LP">>}
    /\ out' = Append(out, rewritten[LineNo])
    /\ hist' = Append(hist, LineObs("escaped"))
    /\ UNCHANGED <<BlockFrame, escaping>>

NextBlock == RewriteScore \/ ReadLP \/ ReadEndLP \/ ReadEscaped

SpecBlock == InitBlock /\ [][NextBlock]_vars

(***************************************************************************)
(* C23: the lines of an LP: block                                          *)
(***************************************************************************)
\* a line of the block has just been handled
EscapedLineRead == scen = "block" /\ hist # <<>> /\ Last.op = "escaped"

\* C23 as stated: while pass-through mode is on, every line is appended to the
\* output exactly as it was written in the input and is not interpreted: the
\* header map, the lyrics and the timing state stay as they were.
C23CopiedAsWritten ==
    EscapedLineRead =>
        /\ out[Len(out)] = Last.written
        /\ headers = EmptyDict
        /\ barPos = FZero /\ barNo = 1 /\ last_figures = <<>>

\* what does hold: the line is not interpreted
C23NotInterpreted ==
    EscapedLineRead =>
        /\ out[Len(out)] = Last.line
        /\ headers = EmptyDict
        /\ barPos = FZero /\ barNo = 1 /\ last_figures = <<>>

\* in the notation pass the line 1 ~ 1 of the block is copied as 1 ( 1 )
C23TieRewritten ==
    /\ EscapedLineRead
    /\ notation
    /\ Last.written = << <<"1">>, Tie, <<"1">> >>
    /\ out[Len(out)] = << <<"1">>, SlurOpen, <<"1">>, SlurClose >>

(***************************************************************************)
(* Key signatures and the transposition blocks they open                   *)
(***************************************************************************)
\* a part of key signatures, repeats and notes, in every pass
InitKeys ==
    /\ scen = "keys"
    /\ \E p \in Passes(scen) : InPass(p)
    /\ InitOneScore
    /\ NoScore

NextKeys ==
    \/ \E w \in NextWords : ProcessNote(w)
    \/ \E w \in NextWords : ProcessTimeSignature(w)
    \/ \E w \in NextWords : RepeatOpen(w)
    \/ \E w \in NextWords : RepeatClose(w)
    \/ \E w \in NextWords : KeySignature(w)
    \/ EndPart

SpecKeys == InitKeys /\ [][NextKeys]_vars

RECURSIVE OpenBlocks(_)
\* the blocks that are open after the tokens toks, innermost last, as a reader of
\* the output pairs the braces: each block is named by the token before its brace
OpenBlocks(toks) ==
    IF toks = <<>> THEN <<>>
    ELSE LET before == OpenBlocks(DropLast(toks))
             t == toks[Len(toks)]
         IN  IF t = "{"
             THEN Append(before, IF Len(toks) > 1 THEN toks[Len(toks) - 1] ELSE "{")
             ELSE IF t = "}" /\ before # <<>> THEN DropLast(before)
             ELSE before

Transposition == "\\transpose"
KeysRead == Cardinality({i \in 1..Len(hist) : hist[i].op = "key"})

\* C24 as stated: in the audio and auxiliary-staff passes every transposition
\* block that a key signature opens is closed exactly once, at the next key
\* signature or at the end of the part: at most one is open at any time, none is
\* open after the part ends, and the closing brace of a repeat never closes one.
\* In the notation pass a key signature only adds a display mark.
C24ClosedOnce ==
    LET toks == Concat(out)
        open == OpenBlocks(toks)
    IN  scen = "keys" =>
          /\ getLY_midi => Times(open, Transposition) <= 1
          /\ (getLY_midi /\ pc = "done") => open = <<>>
          /\ (getLY_midi /\ After("}") /\ Last.err = "none") =>
                LET b == OpenBlocks(Concat(DropLast(out)))
                IN  b # <<>> /\ b[Len(b)] # Transposition
          /\ (notation /\ After("key")) =>
                /\ out[Len(out)] = <<"\\mark">>
                /\ inTranspose = 0
                /\ Times(toks, Transposition) = 0

\* what does hold: the flag and the count of the braces the key signatures and the
\* end of the part append
C24FlagClosed ==
    LET toks == Concat(out)
    IN  scen = "keys" =>
          /\ inTranspose \in {0, 1}
          /\ getLY_midi =>
                /\ inTranspose = (IF KeysRead > 0 THEN 1 ELSE 0)
                /\ Times(toks, Transposition) = KeysRead
                /\ (After("key") /\ KeysRead > 1) => out[Len(out) - 1] = <<"}">>
                /\ pc \in {"words", "done"} =>
                      Times(toks, "{") - Times(toks, "}")
                        = Len(repeatStack) + (IF pc = "done" THEN 0 ELSE inTranspose)
          /\ notation => (inTranspose = 0 /\ Times(toks, Transposition) = 0)

\* the part R{ 1=D 1 } ends well in the audio pass, and the brace of the repeat
\* closed the transposition block: the block of the repeat is closed by the brace
\* the end of the part appends
C24ClosedByRepeat ==
    /\ scen = "keys"
    /\ midi
    /\ pc = "done" /\ err = "none"
    /\ Len(hist) = 5
    /\ hist[1].op = "R{" /\ hist[2].op = "key" /\ hist[3].op = "note"
    /\ hist[4].op = "}"
    /\ OpenBlocks(Concat(SubSeq(out, 1, 3))) = <<"\\repeat volta", Transposition>>
    /\ OpenBlocks(Concat(SubSeq(out, 1, 4))) = <<"\\repeat volta">>
    /\ OpenBlocks(Concat(out)) = <<>>

(***************************************************************************)
(* The length of a note                                                    *)
(***************************************************************************)
\* the last note, rest or dash before the word k, or 0
LastNoteBefore(k) ==
    LET s == {j \in 1..(k - 1) : hist[j].op = "note"}
    IN  IF s = {} THEN 0 ELSE CHOOSE j \in s : \A i \in s : i <= j
BeamsBefore(k) == IF LastNoteBefore(k) = 0 THEN 0 ELSE hist[LastNoteBefore(k)].note.nBeams
KeepLengthBefore(k) == \E j \in 1..(k - 1) : hist[j].op = "KeepLength"

\* 16 / 2^b * (2 - 2^-d) * ratio, as one fraction
ClosedLength(b, d, ratio) ==
    F(16 * (2 ^ (d + 1) - 1) * ratio[1], (2 ^ (b + d)) * ratio[2])

\* C25: the duration a note or dash adds to the bar position is exactly 16 / 2^b
\* units for beam count b, times (2 - 2^-d) for d dots, times the tuplet ratio
\* in force, with no rounding; a word without a length letter has b = 0, or the
\* beam count of the note before it once KeepLength has been read.
C25Duration ==
    \A k \in 1..Len(hist) :
        Played(k) =>
            LET o == hist[k]
                b == IF o.w.nb # None THEN o.w.nb
                     ELSE IF KeepLengthBefore(k) THEN BeamsBefore(k) ELSE 0
            IN  /\ o.note.nBeams = b
                /\ o.note.toAdd = ClosedLength(b, o.w.dots, o.tuplet)
                /\ o.note.toAdd_preTuplet = ClosedLength(b, o.w.dots, <<1, 1>>)
                /\ FAdd(o.pre, o.note.toAdd)
                     = (IF o.note.completed THEN FInt(o.barLength) ELSE o.post)

\* a dotted semiquaver inside a tuplet has been played
C25Witness ==
    /\ After("note") /\ Last.err = "none"
    /\ Last.w.nb = 2 /\ Last.w.dots = 1
    /\ Last.tuplet[1] # Last.tuplet[2]
    /\ Last.note.toAdd = ClosedLength(2, 1, Last.tuplet)
    /\ Last.post = FAdd(Last.pre, Last.note.toAdd)

(***************************************************************************)
(* The bar position and the bar number                                     *)
(***************************************************************************)
\* the note, rest or dash k filled its bar exactly
FillsBar(k) == FAdd(hist[k].pre, hist[k].note.toAdd) = FInt(hist[k].barLength)
BarsFilled == Cardinality({k \in 1..Len(hist) : Played(k) /\ FillsBar(k)})

\* C26: after every note, rest or dash that is processed without error the bar
\* position is at least 0 and less than the bar length; the bar number goes up by
\* exactly one when the note brings the bar position to the bar length (it then
\* wraps to 0), and no other word changes the bar number.
C26BarPosition ==
    /\ barNo = 1 + BarsFilled
    /\ \A k \in 1..Len(hist) :
          Played(k) =>
              /\ FLe(FZero, hist[k].post)
              /\ FLt(hist[k].post, FInt(hist[k].barLength))
              /\ hist[k].post = (IF FillsBar(k) THEN FZero
                                 ELSE FAdd(hist[k].pre, hist[k].note.toAdd))
    /\ (After("note") /\ Last.err = "none") =>
          (barPos = Last.post /\ barLength = Last.barLength)

\* two bars have been filled, with a word that is not a note read in between
C26Witness ==
    /\ After("note") /\ Last.err = "none"
    /\ FillsBar(Steps)
    /\ barNo = 3 /\ barPos = FZero
    /\ \E j \in 2..(Steps - 1) :
          /\ hist[j].op \in {"R{", "}", "time", "|"}
          /\ \E i \in 1..(j - 1) : Played(i) /\ FillsBar(i)

(***************************************************************************)
(* Beam groups at the beat and at the barline                              *)
(***************************************************************************)
NotePlayed == After("note") /\ Last.err = "none"
\* the bar position the last note reached, before a filled bar wraps to 0
Reached == FAdd(Last.pre, Last.note.toAdd)

\* C27 as stated: in the notation pass, whenever a note leaves the bar position at
\* an exact multiple of the beat length, any open beam group is closed at that
\* note, so no beam group is open in a state whose bar position is a multiple of
\* the beat length.
C27ClosedAtBeat ==
    /\ (notation /\ NotePlayed /\ AtBeat(barPos, beatLength)) => inBeamGroup # 1
    /\ (notation /\ pc = "words" /\ AtBeat(barPos, beatLength)) => inBeamGroup # 1

\* what does hold: the group is closed when the position the note reaches, before
\* the wrap of a filled bar, is a multiple of the beat length
C27ClosedBeforeWrap ==
    (notation /\ NotePlayed /\ AtBeat(Reached, beatLength)) => inBeamGroup = 0

\* in the notation pass a quaver has filled a bar of 1/8: the bar position is 0 and
\* the beam group the quaver opened is open
C27OpenAtBarStart ==
    /\ notation /\ NotePlayed
    /\ FillsBar(Steps)
    /\ barPos = FZero /\ AtBeat(barPos, beatLength)
    /\ ~AtBeat(FInt(barLength), beatLength)
    /\ Contains(Last.note.ret, "[") /\ ~Contains(Last.note.ret, "]")
    /\ inBeamGroup = 1

\* C28 as stated: no beam group stays open across a bar completion: whenever a
\* note completes a bar, under every time signature that is accepted, the beam
\* group is closed at that note, and the first note of the next bar is not
\* beamed to it (a beamed note that follows opens a group of its own).
C28ClosedAtBarline ==
    notation =>
        /\ (NotePlayed /\ FillsBar(Steps)) => inBeamGroup # 1
        /\ \A k \in 2..Len(hist) :
              (Played(k) /\ Played(k - 1) /\ FillsBar(k - 1) /\ hist[k].note.nBeams > 0
               /\ hist[k].note.head # "r")
                  => Contains(hist[k].note.ret, "[")

\* in the notation pass, under 1/8, the quaver of the second bar continues the
\* beam group that the quaver of the first bar opened
C28BeamedAcrossBar ==
    /\ notation /\ NotePlayed /\ Steps >= 3
    /\ hist[Steps - 2].op = "time"
    /\ Played(Steps - 1) /\ FillsBar(Steps - 1)
    /\ Contains(hist[Steps - 1].note.ret, "[") /\ ~Contains(hist[Steps - 1].note.ret, "]")
    /\ Last.note.nBeams = 1
    /\ ~Contains(Last.note.ret, "[")
    /\ Contains(Last.note.ret, "| %{ bar %}")

(***************************************************************************)
(* The opening beam bracket                                                *)
(***************************************************************************)
OpensGroup(k) == Contains(hist[k].note.ret, "[")

BeamDepth(toks, i) == Times(SubSeq(toks, 1, i), "[") - Times(SubSeq(toks, 1, i), "]")

\* C30: in the notation pass the beam brackets of an accepted part are balanced
\* and not nested: reading the fragments in order, opening less closing brackets
\* is 0 or 1 at every point, it is 1 exactly while a beam group (not the temporary
\* one of the rest hack) is open, and 0 at the end of the part. In the audio and
\* auxiliary-staff passes there is no beam bracket and no beam group is open.
C30Balanced ==
    LET toks == Concat(out)
    IN  err = "none" =>
          /\ \A i \in 0..Len(toks) : BeamDepth(toks, i) \in {0, 1}
          /\ pc = "words" => (BeamDepth(toks, Len(toks)) = 1 <=> inBeamGroup = 1)
          /\ pc = "done" => BeamDepth(toks, Len(toks)) = 0
          /\ ~notation =>
                (Times(toks, "[") = 0 /\ Times(toks, "]") = 0 /\ inBeamGroup = 0)

\* a part in the notation pass has ended without error on a beam group that the
\* last note left open, and the end of the part closed it
C30Witness ==
    /\ notation
    /\ pc = "done" /\ err = "none"
    /\ inBeamGroup = 1
    /\ Times(Concat(out), "[") > 0
    /\ LET last == out[lastPtr + 1] IN last[Len(last)] = "]"
    /\ BeamDepth(Concat(out), Len(Concat(out))) = 0

(***************************************************************************)
(* getLY: the words that only add a fragment, and parts of all the words   *)
(* that are not notes                                                      *)
(***************************************************************************)
\* a tempo word such as 4=100
Tempo(w) ==
    /\ Reading(w, "tempo")
    /\ out' = Append(out, <<"\\tempo">>)
    /\ hist' = Append(hist, Obs("tempo", w, "none", barPos, barLength, NoNote))
    /\ UNCHANGED <<PlainFrame, not_angka, keepLength, tuplet, escaping, inTranspose>>

\* Fr=... : process_fingering
Fingering(w) ==
    /\ Reading(w, "Fr=")
    /\ out' = Append(out, <<"\\finger">>)
    /\ hist' = Append(hist, Obs("Fr=", w, "none", barPos, barLength, NoNote))
    /\ UNCHANGED <<PlainFrame, not_angka, keepLength, tuplet, escaping, inTranspose>>

\* letterA .. letterZ
RehearsalLetter(w) ==
    /\ Reading(w, "letter")
    /\ out' = Append(out, <<"\\mark \\markup { \\box">>)
    /\ hist' = Append(hist, Obs("letter", w, "none", barPos, barLength, NoNote))
    /\ UNCHANGED <<PlainFrame, not_angka, keepLength, tuplet, escaping, inTranspose>>

\* R*n : a multibar rest, of the length NoteheadMarkup.wholeBarRestLen gives
MultibarRest(w) ==
    /\ Reading(w, "R*")
    /\ out' = out \o Opt(~western, <<"\\set Score.skipBars">>) \o << <<"R">> >>
    /\ hist' = Append(hist, Obs("R*", w, "none", barPos, barLength, NoNote))
    /\ UNCHANGED <<PlainFrame, not_angka, keepLength, tuplet, escaping, inTranspose>>

\* a LilyPond command such as \p: appended, or put inside the \afterGrace that
\* wraps the fragment of the last note
Literal(w) ==
    /\ Reading(w, "\\p")
    /\ out' = IF out # <<>> /\ Contains(out[lastPtr + 1], "\\afterGrace")
              THEN [out EXCEPT ![lastPtr + 1] = Append(@, "\\p")]
              ELSE Append(out, <<"\\p">>)
    /\ hist' = Append(hist, Obs("\\p", w, "none", barPos, barLength, NoNote))
    /\ UNCHANGED <<PlainFrame, not_angka, keepLength, tuplet, escaping, inTranspose>>

InitWords ==
    /\ scen = "words"
    /\ \E p \in Passes(scen) : InPass(p)
    /\ InitOneScore
    /\ NoScore

NextAnyWord ==
    \/ \E w \in NextWords : OctaveOnly(w)
    \/ \E w \in NextWords : ProcessNote(w)
    \/ \E w \in NextWords : ProcessTimeSignature(w)
    \/ \E w \in NextWords : RepeatOpen(w)
    \/ \E w \in NextWords : RepeatClose(w)
    \/ \E w \in NextWords : TupletStart(w)
    \/ \E w \in NextWords : TupletEnd(w)
    \/ \E w \in NextWords : KeepLengthWord(w)
    \/ \E w \in NextWords : Angka(w)
    \/ \E w \in NextWords : KeySignature(w)
    \/ \E w \in NextWords : Tempo(w)
    \/ \E w \in NextWords : Fingering(w)
    \/ \E w \in NextWords : RehearsalLetter(w)
    \/ \E w \in NextWords : MultibarRest(w)
    \/ \E w \in NextWords : Literal(w)
    \/ \E w \in NextWords : GraceBefore(w)
    \/ \E w \in NextWords : GraceAfter(w)
    \/ EndPart

SpecWords == InitWords /\ [][NextAnyWord]_vars

\* the beam-group state, the last beam count, the accidental memory and the
\* remembered last note
BeamAndMemory == <<inBeamGroup, lastNBeams, current_accidentals, last_figures,
                   last_octaves, last_accidentals, last_was_rest>>

\* C31: a word that is not a note, chord, rest or dash (key and time signatures,
\* tempo, fingering, rehearsal letters, multibar rests, grace notes, tuplet and
\* repeat brackets, literal commands, directives, octave-only words) leaves the
\* beam-group state, the last beam count, the accidental memory and the
\* remembered last note as they were.
C31OtherWordsKeep ==
    [][(hist' # hist /\ hist'[Len(hist')].op # "note") => UNCHANGED BeamAndMemory]_vars

\* two words that are not notes have been read after a sharpened quaver that left
\* a beam group open, and the group, the beam count, the memory and the last note
\* are still there
C31Witness ==
    /\ scen = "words" /\ notation /\ Steps = 4
    /\ Played(2) /\ hist[2].w = Nqsharp1
    /\ hist[3].op \notin {"note", "end"} /\ hist[4].op \notin {"note", "end"}
    /\ hist[3].op # hist[4].op
    /\ hist[3].err = "none" /\ hist[4].err = "none"
    /\ inBeamGroup = 1 /\ lastNBeams = 1
    /\ current_accidentals # EmptyDict
    /\ last_figures = <<"1">> /\ last_accidentals = <<Sharp>>

(***************************************************************************)
(* The index of the last note                                              *)
(***************************************************************************)
IsInfix(a, b) == \E i \in 0..(Len(b) - Len(a)) : SubSeq(b, i + 1, i + Len(a)) = a
SomeNotePlayed == \E k \in 1..Len(hist) : Played(k)
LastPlayed == CHOOSE k \in 1..Len(hist) : Played(k) /\ \A j \in (k + 1)..Len(hist) : ~Played(j)

\* the fragments up to the last note stay where they are and keep their text (a
\* grace word may add an override to the fragment of an open tuplet), and the
\* fragments after the last note keep their order behind at most n fragments
\* inserted right after the note
KeepsPlaces(n) ==
    /\ Len(out') >= Len(out) /\ lastPtr + 1 <= Len(out)
    /\ \A i \in 1..(lastPtr + 1) : IsInfix(out[i], out'[i])
    /\ \A i \in (lastPtr + 2)..Len(out) : IsInfix(out[i], out'[i + n])

\* C32: once a note has been emitted in a part, the last-note index designates the
\* fragment of the most recently emitted note. What is added afterwards for that
\* note (the tie of a dash that follows, a beam-closing bracket, the grace-after
\* markup) is inserted right after that fragment or added to it, ahead of every
\* fragment appended since the note, and no step moves the fragment of the note
\* to another index.
C32LastNoteIndex ==
    [][(SomeNotePlayed /\ hist' # hist) =>
         LET o == hist'[Len(hist')]
         IN  IF o.op = "note" /\ o.err = "none"
             THEN /\ KeepsPlaces(lastPtr' - Len(out))
                  /\ lastPtr' \in {Len(out), Len(out) + 1}
                  /\ lastPtr' + 1 <= Len(out')
                  /\ IsInfix(o.note.ret, out'[lastPtr' + 1])
                  /\ lastPtr' > Len(out) => out'[lastPtr + 2] \in {<<"]">>, <<"~">>, <<"]", "~">>}
             ELSE /\ lastPtr' = lastPtr
                  /\ (KeepsPlaces(0) \/ KeepsPlaces(1))
                  /\ IsInfix(hist[LastPlayed].note.ret, out'[lastPtr + 1])]_vars

\* in the notation pass a grace-after word and then a dash have followed a beamed
\* note: the bracket and the tie stand right after the fragment of the note, ahead
\* of the grace markup, and the index designates the dash
C32Witness ==
    /\ scen = "words" /\ notation /\ Steps = 4
    /\ Played(2) /\ hist[3].op = "]g" /\ hist[3].err = "none"
    /\ Played(4) /\ hist[4].w = Dash
    /\ lastPtr + 1 = Len(out)
    /\ IsInfix(hist[4].note.ret, out[lastPtr + 1])
    /\ IsInfix(hist[2].note.ret, out[lastPtr - 2])
    /\ out[lastPtr - 1] = <<"]", "~">>
    /\ out[lastPtr] = <<jianpuGraceAfterMarkup>>

(***************************************************************************)
(* Tuplets inside tuplets                                                  *)
(***************************************************************************)
RECURSIVE OpenTuplets(_)
\* the ratios of the tuplet brackets that are open after the first k words,
\* innermost last
OpenTuplets(k) ==
    IF k = 0 THEN <<>>
    ELSE LET before == OpenTuplets(k - 1)
             o == hist[k]
         IN  IF o.err # "none" THEN before
             ELSE IF o.op = "N[" THEN Append(before, <<TupletNum(o.w.n), o.w.n>>)
             ELSE IF o.op = "]" /\ before # <<>> THEN DropLast(before)
             ELSE before

\* C33 as stated: tuplet brackets nest: after the ] that closes an inner tuplet the
\* ratio in force is the ratio of the enclosing tuplet that is still open, and it
\* is 1:1 only when no tuplet remains open.
C33TupletsNest ==
    (After("]") /\ Last.err = "none") =>
        LET open == OpenTuplets(Steps)
        IN  tuplet = (IF open = <<>> THEN <<1, 1>> ELSE open[Len(open)])

\* two tuplets have been opened and one closed: a bracket of 3 in the time of 2
\* is still open in the output and the ratio in force is 1:1
C33OuterRatioLost ==
    /\ After("]") /\ Last.err = "none" /\ Steps >= 3
    /\ hist[Steps - 2].op = "N[" /\ hist[Steps - 2].w.n = 3
    /\ hist[Steps - 1].op = "N["
    /\ OpenTuplets(Steps) = << <<2, 3>> >>
    /\ Times(Concat(out), "\\times") = 2
    /\ tuplet = <<1, 1>>

(***************************************************************************)
(* The assertion of _process_figures                                       *)
(***************************************************************************)
\* the word k is a dash that is not the continuation of a note: _process_figures
\* stores it as the last note
DashStored(k) ==
    /\ hist[k].op = "note"
    /\ hist[k].w.figs # <<>> /\ hist[k].w.figs[1] = "-"
    /\ ~hist[k].note.invis

\* C34 as stated: the assertion that the remembered last figures never begin with
\* a dash holds in every reachable state, whatever the words, also when the first
\* note word of the part is a dash and when a dash follows a rest.
C34AssertionHolds ==
    /\ (last_figures = <<>> \/ last_figures[1] # "-")
    /\ \A k \in 1..Len(hist) : DashStored(k) => hist[k].err # "AssertionError"

\* the first word of the part is a dash, and the run has stopped on the assertion
C34DashFirst ==
    /\ Steps = 1
    /\ hist[1].w = Dash /\ DashStored(1)
    /\ last_figures = <<>>
    /\ hist[1].err = "AssertionError"
    /\ pc = "failed"

(***************************************************************************)
(* Chords whose figures are each valid                                     *)
(***************************************************************************)
\* a chord word that passes _validate_figures and the octave check of
\* _process_figures: no rest or dash in it, each accidental none, sharp or flat,
\* each octave, with the base octave added, one of the five levels
ValidChord(w, base) == Len(w.figs) > 1 /\ ~InvalidFigures(w, base)

\* C35 as stated: a chord word in which every figure has a valid accidental and a
\* valid resolved octave is processed to a fragment without failure in every
\* pass, whatever the accidentals and octaves of its figures.
C35ChordsProcessed ==
    \A k \in 1..Len(hist) :
        hist[k].op = "note" /\ ValidChord(hist[k].w, hist[k].base)
            => hist[k].err # "KeyError"

\* the chord #1#3 in the notation pass: each figure is valid, the accidentals joined
\* are "##", and the lookup of the placeholder's accidental fails
C35JoinedAccidentals ==
    /\ After("note")
    /\ notation /\ ~not_angka
    /\ Last.w = Chord2sharps /\ ValidChord(Last.w, Last.base)
    /\ Last.note.head = "c"
    /\ Last.note.accidental = <<"#", "#">>
    /\ Last.err = "KeyError"
    /\ pc = "failed"

(***************************************************************************)
(* The "No jianpu" check at the end of a part                              *)
(***************************************************************************)
\* the part held no note, chord, rest or dash word
NoNoteWord == \A k \in 1..Len(hist) : hist[k].op # "note"

\* C36 as stated: a part with no note, rest or dash word is always rejected with
\* the "No jianpu" error, whatever other words it holds, and a part with at least
\* one successfully processed note is never rejected with that error.
C36NoJianpu ==
    After("end") =>
        /\ NoNoteWord => Last.err = "NoJianpu"
        /\ SomeNotePlayed => Last.err # "NoJianpu"

\* a part that is only a time signature with an anacrusis: the bar position is not
\* 0 at the end, and the part is accepted
C36AnacrusisAccepted ==
    /\ After("end")
    /\ Steps = 2 /\ hist[1].op = "time" /\ hist[1].w.a # 0 /\ hist[1].err = "none"
    /\ NoNoteWord
    /\ ~FIsZero(barPos) /\ barNo = 1
    /\ Last.err = "none"
    /\ pc = "done"

\* a part whose note was played and whose bar position an alternative's separator
\* has put back to 0 in the first bar: rejected
C36NoteRejected ==
    /\ After("end")
    /\ SomeNotePlayed
    /\ FIsZero(barPos) /\ barNo = 1
    /\ Last.err = "NoJianpu"
    /\ pc = "failed"

(***************************************************************************)
(* The left beam count                                                     *)
(***************************************************************************)
\* C37: for every note the left beam count computed for it is at most its own beam
\* count, so the assertion "a non-zero left beam count implies a non-zero beam
\* count" never fails.
C37LeftBeamsBounded ==
    \A k \in 1..Len(hist) :
        hist[k].op = "note" =>
            /\ hist[k].note.leftBeams >= 0
            /\ hist[k].note.leftBeams <= hist[k].note.nBeams
            /\ hist[k].note.leftBeams # 0 => hist[k].note.nBeams # 0
            /\ hist[k].err = "AssertionError" => DashStored(k)

\* a note inside a beam group with more beams than the note before it: its left
\* beam count is that of the note before, not 0 and less than its own
C37Witness ==
    /\ After("note") /\ Last.err = "none"
    /\ Last.inBeamGroup # 0
    /\ Last.note.leftBeams > 0
    /\ Last.note.leftBeams < Last.note.nBeams
====
